---- MODULE Spec2Model ----
(***************************************************************************)
(* A model of lua-2pda: the two-way pushdown automaton engine of pda.py    *)
(* (TwoPDA.parse / TwoPDA.consume_character) and the Lua 5.3 transition    *)
(* table that pda_lua.py builds in _make_transitions().                    *)
(*                                                                         *)
(* A byte is a string: the character itself for printable ASCII (but the   *)
(* grave accent) and for the four control characters TLA+ can write        *)
(* ("\t", "\n", "\f", "\r"), and "<n>" (n decimal) for every other byte     *)
(* value n.                                                                *)
(*                                                                         *)
(* The table is a sequence of rules in the order the Python code assigns   *)
(* them; a rule stands for the assignments                                 *)
(*     for c in chars: transitions[(state, c, top)] = to                   *)
(* and, as in a Python dict, a later assignment to the same key replaces   *)
(* an earlier one.                                                         *)
(***************************************************************************)
EXTENDS Integers, Sequences, FiniteSets, TLC

VARIABLES
    state,      \* TwoPDA.state
    stack,      \* TwoPDA.stack, bottom to top
    input,      \* the argument of the running (or last) parse call
    i,          \* parse's cursor
    pc,         \* "idle" | "running" | "returned" | "raised"
    err,        \* the index the RuntimeError of parse reports, -1 when none
    calls,      \* parse calls made on this instance
    steps,      \* consume_character calls that returned, in this parse call
    stays,      \* how many of the latest of them, in a row, returned 'stay'
    family,     \* which set of test cases parse is called for
    case        \* the test case of the running (or last) parse call

vars == <<state, stack, input, i, pc, err, calls, steps, stays, family, case>>

None == "None"

(***************************************************************************)
(* Bytes and the character classes of pda_lua.py                           *)
(***************************************************************************)
B(n) == "<" \o ToString(n) \o ">"

LOWER == {"a","b","c","d","e","f","g","h","i","j","k","l","m",
          "n","o","p","q","r","s","t","u","v","w","x","y","z"}
UPPER == {"A","B","C","D","E","F","G","H","I","J","K","L","M",
          "N","O","P","Q","R","S","T","U","V","W","X","Y","Z"}
PUNCTUATION == {"!","\"","#","$","%","&","'","(",")","*","+",",","-",".","/",
                ":",";","<","=",">","?","@","[","\\","]","^","_",
                "{","|","}","~"}
VT == B(11)

DIGITS == {"0","1","2","3","4","5","6","7","8","9"}
ONLY_HEX_DIGITS == {"a","b","c","d","e","f","A","B","C","D","E","F"}
HEX_DIGITS == DIGITS \cup ONLY_HEX_DIGITS

IN_LISSPACE == {" ", "\t", "\n", "\r", VT, "\f"}
ALL == LOWER \cup UPPER \cup DIGITS \cup PUNCTUATION \cup IN_LISSPACE
       \cup {B(n) : n \in (0..8) \cup (14..31) \cup {96} \cup (127..255)}

without(s, removals) == s \ removals
u8_complement(s) == without(ALL, s)

IN_LISLALPHA == LOWER \cup UPPER \cup {"_"}
IN_LISLALNUM == LOWER \cup UPPER \cup DIGITS \cup {"_"}
NOT_LISLALNUM == u8_complement(IN_LISLALNUM)
NOT_LISSPACE == u8_complement(IN_LISSPACE)

(***************************************************************************)
(* Rules                                                                   *)
(***************************************************************************)
\* (new_state, direction, stack_op, stack_value)
Tr(new_state, direction, op, value) == <<new_state, direction, op, value>>

\* for c in chars: transitions[(st, c, top)] = to
Set(st, chars, top, to) == << [state |-> st, chars |-> chars, top |-> top, to |-> to] >>

\* the rules of a sequence of rule sequences, in order: what a loop
\*     for x in xs: <assignments F(x)>
\* adds to the table is Flatten([k \in DOMAIN xs |-> F(xs[k])])
RECURSIVE FlattenFrom(_, _)
FlattenFrom(seqs, k) == IF k > Len(seqs) THEN << >> ELSE seqs[k] \o FlattenFrom(seqs, k + 1)

Flatten(seqs) == CHOOSE rules \in {FlattenFrom(s, 1) : s \in {seqs}} : TRUE

FAIL_TRANSITION == Tr("FAIL", "stay", "read", None)

\* each keyword with its characters
KEYWORDS == <<
    [name |-> "and",      chars |-> <<"a","n","d">>],
    [name |-> "break",    chars |-> <<"b","r","e","a","k">>],
    [name |-> "do",       chars |-> <<"d","o">>],
    [name |-> "else",     chars |-> <<"e","l","s","e">>],
    [name |-> "elseif",   chars |-> <<"e","l","s","e","i","f">>],
    [name |-> "end",      chars |-> <<"e","n","d">>],
    [name |-> "false",    chars |-> <<"f","a","l","s","e">>],
    [name |-> "for",      chars |-> <<"f","o","r">>],
    [name |-> "function", chars |-> <<"f","u","n","c","t","i","o","n">>],
    [name |-> "goto",     chars |-> <<"g","o","t","o">>],
    [name |-> "if",       chars |-> <<"i","f">>],
    [name |-> "in",       chars |-> <<"i","n">>],
    [name |-> "local",    chars |-> <<"l","o","c","a","l">>],
    [name |-> "nil",      chars |-> <<"n","i","l">>],
    [name |-> "not",      chars |-> <<"n","o","t">>],
    [name |-> "or",       chars |-> <<"o","r">>],
    [name |-> "repeat",   chars |-> <<"r","e","p","e","a","t">>],
    [name |-> "return",   chars |-> <<"r","e","t","u","r","n">>],
    [name |-> "then",     chars |-> <<"t","h","e","n">>],
    [name |-> "true",     chars |-> <<"t","r","u","e">>],
    [name |-> "until",    chars |-> <<"u","n","t","i","l">>],
    [name |-> "while",    chars |-> <<"w","h","i","l","e">> ] >>

CHECK_IF_ONLY_NAME_STACK_SYMBOLS == <<"beginning", "only_name", "not_only_name">>

\* the first n characters of a keyword, as the stack symbol the code builds
RECURSIVE Prefix(_, _)
Prefix(chars, n) == IF n = 0 THEN "" ELSE Prefix(chars, n - 1) \o chars[n]

(***************************************************************************)
(* Subsystem enter/exit functions                                          *)
(***************************************************************************)
\* read_whitespace that never comes back from a multi-line comment
read_whitespace_no_multiline_return(start_state, minus_transition, required_stack_value) ==
    LET this_stack_value == "comment__" \o start_state
        intermediate_state == "possible_comment_-__" \o start_state
    IN  Set(start_state, IN_LISSPACE, required_stack_value,
            Tr(start_state, "right", "read", None))
        \o Set(start_state, {"-"}, required_stack_value,
               Tr("possible_comment_-", "right", "push", this_stack_value))
        \o Set("possible_comment_-", u8_complement({"-"}), this_stack_value,
               Tr(intermediate_state, "stay", "pop", None))
        \o Set(intermediate_state, u8_complement({"-"}), None, minus_transition)
        \o Set("comment_single_line", {"\r"}, this_stack_value,
               Tr(start_state, "right", "pop", None))
        \o Set("comment_single_line", {"\n"}, this_stack_value,
               Tr(start_state, "right", "pop", None))

\* read_whitespace that leaves its marker on the stack when the byte after
\* "-" starts no comment
read_whitespace_marker_left(start_state, minus_transition, required_stack_value) ==
    LET this_stack_value == "comment__" \o start_state
        intermediate_state == "possible_comment_-__" \o start_state
    IN  Set(start_state, IN_LISSPACE, required_stack_value,
            Tr(start_state, "right", "read", None))
        \o Set(start_state, {"-"}, required_stack_value,
               Tr("possible_comment_-", "right", "push", this_stack_value))
        \o Set("possible_comment_-", u8_complement({"-"}), this_stack_value,
               Tr(intermediate_state, "stay", "read", None))
        \o Set(intermediate_state, u8_complement({"-"}), None, minus_transition)
        \o Set("comment_single_line", {"\r"}, this_stack_value,
               Tr(start_state, "right", "pop", None))
        \o Set("comment_single_line", {"\n"}, this_stack_value,
               Tr(start_state, "right", "pop", None))
        \o Set("comment_multiline_end", {"]"}, this_stack_value,
               Tr(start_state, "right", "pop", None))

read_whitespace(start_state, minus_transition, required_stack_value) ==
    LET this_stack_value == "comment__" \o start_state
        intermediate_state == "possible_comment_-__" \o start_state
    IN  Set(start_state, IN_LISSPACE, required_stack_value,
            Tr(start_state, "right", "read", None))
        \o Set(start_state, {"-"}, required_stack_value,
               Tr("possible_comment_-", "right", "push", this_stack_value))
        \o Set("possible_comment_-", u8_complement({"-"}), this_stack_value,
               Tr(intermediate_state, "stay", "pop", None))
        \o Set(intermediate_state, u8_complement({"-"}), None, minus_transition)
        \o Set("comment_single_line", {"\r"}, this_stack_value,
               Tr(start_state, "right", "pop", None))
        \o Set("comment_single_line", {"\n"}, this_stack_value,
               Tr(start_state, "right", "pop", None))
        \o Set("comment_multiline_end", {"]"}, this_stack_value,
               Tr(start_state, "right", "pop", None))

read_name_or_keyword(start_state, name_transition, keyword_transition, required_stack_value) ==
    LET this_stack_value == "name_or_keyword__" \o start_state
        ExitKeyword(keyword) ==
            LET intermediate_state == "keyword_" \o keyword.name \o "_from__" \o start_state
            IN  Set("keyword_" \o keyword.name, NOT_LISLALNUM, this_stack_value,
                    Tr(intermediate_state, "stay", "replace", keyword.name))
                \o Set(intermediate_state, NOT_LISLALNUM, None, keyword_transition)
    IN  Set(start_state, IN_LISLALPHA, required_stack_value,
            Tr("name_or_keyword", "stay", "push", this_stack_value))
        \o Set("name", NOT_LISLALNUM, this_stack_value,
               Tr("name_from__" \o start_state, "stay", "pop", None))
        \o Set("name_from__" \o start_state, NOT_LISLALNUM, None, name_transition)
        \o Flatten([k \in DOMAIN KEYWORDS |-> ExitKeyword(KEYWORDS[k])])

read_name_list(start_state, name_transition, keyword_transition, required_stack_value) ==
    LET this_stack_value == "name_list__" \o start_state
        intermediate_state_3 == "name_list_exit_keyword_from__" \o start_state
        ExitKeyword(k) ==
            LET intermediate_state_1 == "name_list_exit_keyword__" \o k.name
                intermediate_state_2 == "name_list_exit_keyword__" \o k.name
                                            \o "__from__" \o start_state
            IN  Set("name_list_exit_keyword", ALL, k.name,
                    Tr(intermediate_state_1, "stay", "pop", None))
                \o Set(intermediate_state_1, ALL, this_stack_value,
                       Tr(intermediate_state_2, "stay", "pop", None))
                \o Set(intermediate_state_2, ALL, None,
                       Tr(intermediate_state_3, "stay", "push", k.name))
                \o Set(intermediate_state_3, ALL, None, keyword_transition)
    IN  Set(start_state, ALL, required_stack_value,
            Tr("name_list_start", "stay", "push", this_stack_value))
        \o Set("name_list_exit_name", ALL, this_stack_value,
               Tr("name_list_exit_name_from__" \o start_state, "stay", "pop", None))
        \o Set("name_list_exit_name_from__" \o start_state, ALL, None, name_transition)
        \o Flatten([k \in DOMAIN KEYWORDS |-> ExitKeyword(KEYWORDS[k])])

\* the chain of intermediate states that pops this_stack_value and pushes to_push
RECURSIVE lrvalue_exit_chain(_, _, _, _, _)
lrvalue_exit_chain(intermediate_state_1, extra_intermediate_state, this_stack_value, to_push, n) ==
    IF n > Len(to_push) THEN << >>
    ELSE Set(IF n = 1 THEN intermediate_state_1
                      ELSE extra_intermediate_state \o "__" \o ToString(n - 1),
             ALL,
             IF n = 1 THEN this_stack_value ELSE None,
             Tr(extra_intermediate_state \o "__" \o ToString(n), "stay",
                IF n = 1 THEN "replace" ELSE "push", to_push[n]))
         \o lrvalue_exit_chain(intermediate_state_1, extra_intermediate_state,
                               this_stack_value, to_push, n + 1)

read_lvalue_or_rvalue(start_state, already_read_name, transition, minus_transition, period_transition, colon_transition, keyword_transition, check_if_only_name, check_if_function_call) ==
    LET this_stack_value == "lrvalue__" \o start_state
        entry_point == IF already_read_name THEN "2" ELSE "1"
        Exit(m) ==
            LET mod == m[1]
                this_transition == m[2]
                Option1(exit_option_1) ==
                  LET Option2(exit_option_2) ==
                    LET Option3(exit_option_3) ==
                      LET state_stack_value == exit_option_1 \o "__" \o exit_option_2
                                                   \o "__" \o exit_option_3
                          intermediate_state_1 == "lrvalue_exit" \o mod \o "_with__"
                                                      \o state_stack_value
                          extra_intermediate_state == "lrvalue_exit" \o mod \o "_from__"
                                                          \o this_stack_value \o "__with__"
                                                          \o state_stack_value
                          to_push == (IF check_if_function_call THEN <<exit_option_3>> ELSE << >>)
                                     \o (IF check_if_only_name THEN <<exit_option_2>> ELSE << >>)
                                     \o <<exit_option_1>>
                      IN  Set("lrvalue" \o mod \o "_exit", ALL, state_stack_value,
                              Tr(intermediate_state_1, "stay", "pop", None))
                          \o lrvalue_exit_chain(intermediate_state_1, extra_intermediate_state,
                                                this_stack_value, to_push, 1)
                          \o Set(extra_intermediate_state \o "__" \o ToString(Len(to_push)),
                                 ALL, None, this_transition)
                    IN Flatten([k \in DOMAIN (<<"function_call", "not_function_call">>) |-> Option3((<<"function_call", "not_function_call">>)[k])])
                  IN Flatten([k \in DOMAIN (<<"only_name", "not_only_name">>) |-> Option2((<<"only_name", "not_only_name">>)[k])])
            IN  Flatten([k \in DOMAIN (<<"lvalue_or_rvalue", "rvalue">>) |-> Option1((<<"lvalue_or_rvalue", "rvalue">>)[k])])
        ExitKeyword(keyword) ==
            LET intermediate_state_1 == "lrvalue_exit_keyword_with__" \o keyword.name
                intermediate_state_2 == "lrvalue_exit_keyword_from__" \o start_state
                                            \o "__with__" \o keyword.name
            IN  Set("lrvalue_exit", ALL, keyword.name,
                    Tr(intermediate_state_1, "stay", "pop", None))
                \o Set(intermediate_state_1, ALL, this_stack_value,
                       Tr(intermediate_state_2, "stay", "replace", keyword.name))
                \o Set(intermediate_state_2, ALL, None, keyword_transition)
    IN  Set(start_state, ALL, None,
            Tr("lrvalue_start_" \o entry_point, "stay", "push", this_stack_value))
        \o Flatten([k \in DOMAIN (<< <<"", transition>>, <<"_-", minus_transition>>, <<"_.", period_transition>>, <<"_:", colon_transition>> >>) |-> Exit((<< <<"", transition>>, <<"_-", minus_transition>>, <<"_.", period_transition>>, <<"_:", colon_transition>> >>)[k])])
        \o Flatten([k \in DOMAIN KEYWORDS |-> ExitKeyword(KEYWORDS[k])])

lrvalue_init_stack_state_and_read_next_part(start_state, characters_to_transition_on, right_or_stay, lvalue_or_rvalue_vs_rvalue, only_name_vs_not_only_name, function_call_vs_not_function_call) ==
    LET stack_value == lvalue_or_rvalue_vs_rvalue \o "__" \o only_name_vs_not_only_name
                           \o "__" \o function_call_vs_not_function_call
    IN  Set(start_state, characters_to_transition_on, None,
            Tr("lrvalue_read_next_part", right_or_stay, "push", stack_value))

\* the tag set without regard to lvalue_or_rvalue_vs_rvalue
lrvalue_set_stack_state_always_lvalue(start_state, characters_to_transition_on, right_or_stay, lvalue_or_rvalue_vs_rvalue, only_name_vs_not_only_name, function_call_vs_not_function_call, is_colon_version) ==
    LET target_state == "lrvalue_read_next_part" \o (IF is_colon_version THEN "_:" ELSE "")
        stack_value == "lvalue_or_rvalue" \o "__" \o only_name_vs_not_only_name
                           \o "__" \o function_call_vs_not_function_call
    IN  Set(start_state, characters_to_transition_on, None,
            Tr(target_state, right_or_stay, "replace", stack_value))

lrvalue_set_stack_state_and_read_next_part(start_state, characters_to_transition_on, right_or_stay, lvalue_or_rvalue_vs_rvalue, only_name_vs_not_only_name, function_call_vs_not_function_call, is_colon_version) ==
    LET target_state == "lrvalue_read_next_part" \o (IF is_colon_version THEN "_:" ELSE "")
        stack_value == lvalue_or_rvalue_vs_rvalue \o "__" \o only_name_vs_not_only_name
                           \o "__" \o function_call_vs_not_function_call
    IN  Set(start_state, characters_to_transition_on, None,
            Tr(target_state, right_or_stay, "replace", stack_value))

read_expression(start_state, transition, end_transition, elseif_transition, else_transition, until_transition, semicolon_transition, rparen_transition, equals_transition, trailing_name_transition, colon_transition, required_stack_value, check_if_only_name) ==
    LET this_stack_value == "expression__" \o start_state
        Exit(t) ==
            LET type == t[1]
                this_transition == t[2]
                intermediate_state_2 == "expression_exit" \o type \o "_from__" \o start_state
                Symb(symb) ==
                    LET intermediate_state_1 == "expression_exit" \o type \o "_with__" \o symb
                    IN  Set("expression_exit" \o type, ALL, symb,
                            Tr(intermediate_state_1, "stay", "pop", None))
                        \o Set(intermediate_state_1, ALL, this_stack_value,
                               IF check_if_only_name
                               THEN Tr(intermediate_state_2, "stay", "replace", symb)
                               ELSE Tr(intermediate_state_2, "stay", "pop", None))
            IN  Flatten([k \in DOMAIN CHECK_IF_ONLY_NAME_STACK_SYMBOLS |-> Symb(CHECK_IF_ONLY_NAME_STACK_SYMBOLS[k])])
                \o Set(intermediate_state_2, ALL, None, this_transition)
        Special(t) ==
            LET k == t[1]
                special_transition == t[2]
                intermediate_state == "expression_exit_" \o k \o "_from__" \o start_state
            IN  Set("expression_exit_" \o k, ALL, None,
                    Tr("expression_exit_" \o k \o "_1", "stay", "pop", None))
                \o Set("expression_exit_" \o k \o "_1", ALL, this_stack_value,
                       Tr(intermediate_state, "stay", "pop", None))
                \o Set(intermediate_state, ALL, None, special_transition)
    IN  Set(start_state, ALL, required_stack_value,
            Tr("expression_start", "stay", "push", this_stack_value))
        \o Set("expression_start", ALL, None, Tr("expression", "stay", "push", "beginning"))
        \o read_whitespace("expression_start", Tr("expression_start", "stay", "read", None), None)
        \o Flatten([k \in DOMAIN (<< <<"", transition>>, <<"_=", equals_transition>>, <<"_trailing_name", trailing_name_transition>>, <<"_:", colon_transition>> >>) |-> Exit((<< <<"", transition>>, <<"_=", equals_transition>>, <<"_trailing_name", trailing_name_transition>>, <<"_:", colon_transition>> >>)[k])])
        \o Flatten([k \in DOMAIN (<< <<"end", end_transition>>, <<"elseif", elseif_transition>>, <<"else", else_transition>>, <<"until", until_transition>>, <<";", semicolon_transition>>, <<")", rparen_transition>> >>) |-> Special((<< <<"end", end_transition>>, <<"elseif", elseif_transition>>, <<"else", else_transition>>, <<"until", until_transition>>, <<";", semicolon_transition>>, <<")", rparen_transition>> >>)[k])])

\* an expression list reader whose regular exit leaves this_stack_value on
\* the stack
read_expression_list_sentinel_left(start_state, transition, end_transition, elseif_transition, else_transition, until_transition, semicolon_transition, rparen_transition, trailing_name_transition, colon_transition, required_stack_value) ==
    LET this_stack_value == "expression_list__" \o start_state
        Special(t) ==
            LET k == t[1]
                trans == t[2]
                intermediate_state == "expression_list_exit_" \o k \o "_from__" \o start_state
            IN  Set("expression_list_exit_" \o k, ALL, this_stack_value,
                    Tr(intermediate_state, "stay", "pop", None))
                \o Set(intermediate_state, ALL, None, trans)
    IN  Set(start_state, ALL, required_stack_value,
            Tr("expression_list_start", "stay", "push", this_stack_value))
        \o Set("expression_list_exit", ALL, this_stack_value,
               Tr("expression_list_exit_from__" \o start_state, "stay", "read", None))
        \o Set("expression_list_exit_from__" \o start_state, ALL, None, transition)
        \o Flatten([k \in DOMAIN (<< <<"end", end_transition>>, <<"elseif", elseif_transition>>, <<"else", else_transition>>, <<"until", until_transition>>, <<";", semicolon_transition>>, <<")", rparen_transition>>, <<"trailing_name", trailing_name_transition>>, <<":", colon_transition>> >>) |-> Special((<< <<"end", end_transition>>, <<"elseif", elseif_transition>>, <<"else", else_transition>>, <<"until", until_transition>>, <<";", semicolon_transition>>, <<")", rparen_transition>>, <<"trailing_name", trailing_name_transition>>, <<":", colon_transition>> >>)[k])])

read_expression_list(start_state, transition, end_transition, elseif_transition, else_transition, until_transition, semicolon_transition, rparen_transition, trailing_name_transition, colon_transition, required_stack_value) ==
    LET this_stack_value == "expression_list__" \o start_state
        Special(t) ==
            LET k == t[1]
                trans == t[2]
                intermediate_state == "expression_list_exit_" \o k \o "_from__" \o start_state
            IN  Set("expression_list_exit_" \o k, ALL, this_stack_value,
                    Tr(intermediate_state, "stay", "pop", None))
                \o Set(intermediate_state, ALL, None, trans)
    IN  Set(start_state, ALL, required_stack_value,
            Tr("expression_list_start", "stay", "push", this_stack_value))
        \o Set("expression_list_exit", ALL, this_stack_value,
               Tr("expression_list_exit_from__" \o start_state, "stay", "pop", None))
        \o Set("expression_list_exit_from__" \o start_state, ALL, None, transition)
        \o Flatten([k \in DOMAIN (<< <<"end", end_transition>>, <<"elseif", elseif_transition>>, <<"else", else_transition>>, <<"until", until_transition>>, <<";", semicolon_transition>>, <<")", rparen_transition>>, <<"trailing_name", trailing_name_transition>>, <<":", colon_transition>> >>) |-> Special((<< <<"end", end_transition>>, <<"elseif", elseif_transition>>, <<"else", else_transition>>, <<"until", until_transition>>, <<";", semicolon_transition>>, <<")", rparen_transition>>, <<"trailing_name", trailing_name_transition>>, <<":", colon_transition>> >>)[k])])

(***************************************************************************)
(* Long strings / multiline comments                                       *)
(***************************************************************************)
\* levels counted eight short of / one past the ten that the code supports
EQUALS_TO_SUPPORT_two == 10 - 8

EQUALS_TO_SUPPORT_eleven == 10 + 1

EQUALS_TO_SUPPORT == 10

MCOLS == "multiline_comment_or_long_string"

\* range(a, b + 1)
Range(a, b) == [k \in 1..(b - a + 1) |-> a + k - 1]

\* '=' * n
RECURSIVE Equals(_)
Equals(n) == IF n = 0 THEN "" ELSE Equals(n - 1) \o "="

LongBracketOpeningRules ==
    LET CountEquals(n) ==
            Set(MCOLS \o "_start_[", {"="}, Equals(n - 1),
                Tr(MCOLS \o "_start_[", "right", "replace", Equals(n)))
    IN  Set(MCOLS \o "_start", ALL, None, Tr(MCOLS \o "_end_opening_fail", "stay", "read", None))
        \o Set(MCOLS \o "_start", {"["}, None, Tr(MCOLS \o "_start_[", "right", "push", ""))
        \o Set(MCOLS \o "_start_2", ALL, None, Tr(MCOLS \o "_end_opening_fail", "stay", "read", None))
        \o Set(MCOLS \o "_start_2", {"["}, None, Tr(MCOLS \o "_start_[", "stay", "push", ""))
        \o Set(MCOLS \o "_start_2", {"="}, None, Tr(MCOLS \o "_start_[", "stay", "push", ""))
        \o Set(MCOLS \o "_start_[", u8_complement({"="}), None,
               Tr(MCOLS \o "_end_opening_fail", "stay", "pop", None))
        \o Flatten([k \in DOMAIN (Range(1, EQUALS_TO_SUPPORT)) |-> CountEquals((Range(1, EQUALS_TO_SUPPORT))[k])])
        \o Set(MCOLS \o "_start_[", {"="}, None, Tr(MCOLS \o "_start_[", "right", "read", None))
        \o Set(MCOLS \o "_start_[", {"["}, None, Tr(MCOLS, "right", "read", None))

\* closing rules under which the "]" that ends a failed candidate is body
\* text and starts no new candidate
LongBracketClosingRules_bracket_not_reused ==
    LET CountEquals(n) ==
            Set(MCOLS \o "_possible_end", {"="}, Equals(n - 1),
                Tr(MCOLS \o "_possible_end", "right", "replace", Equals(n)))
        Compare(n) ==
            Set(MCOLS \o "_possible_end_2", {"]"}, Equals(n),
                Tr(MCOLS \o "_possible_end_" \o Equals(n), "stay", "pop", None))
            \o Set(MCOLS \o "_possible_end_" \o Equals(n), {"]"}, Equals(n),
                   Tr(MCOLS \o "_end", "stay", "pop", None))
            \o Set(MCOLS \o "_possible_end_" \o Equals(n), {"]"}, None,
                   Tr(MCOLS, "right", "read", None))
    IN  Set(MCOLS, ALL, None, Tr(MCOLS, "right", "read", None))
        \o Set(MCOLS, {"]"}, None, Tr(MCOLS \o "_possible_end", "right", "push", ""))
        \o Set(MCOLS \o "_possible_end", u8_complement({"=", "]"}), None,
               Tr(MCOLS, "right", "pop", None))
        \o Flatten([k \in DOMAIN (Range(1, EQUALS_TO_SUPPORT)) |-> CountEquals((Range(1, EQUALS_TO_SUPPORT))[k])])
        \o Set(MCOLS \o "_possible_end", {"="}, None,
               Tr(MCOLS \o "_possible_end", "right", "read", None))
        \o Set(MCOLS \o "_possible_end", {"]"}, None,
               Tr(MCOLS \o "_possible_end_2", "stay", "read", None))
        \o Flatten([k \in DOMAIN (Range(0, EQUALS_TO_SUPPORT)) |-> Compare((Range(0, EQUALS_TO_SUPPORT))[k])])

LongBracketClosingRules ==
    LET CountEquals(n) ==
            Set(MCOLS \o "_possible_end", {"="}, Equals(n - 1),
                Tr(MCOLS \o "_possible_end", "right", "replace", Equals(n)))
        Compare(n) ==
            Set(MCOLS \o "_possible_end_2", {"]"}, Equals(n),
                Tr(MCOLS \o "_possible_end_" \o Equals(n), "stay", "pop", None))
            \o Set(MCOLS \o "_possible_end_" \o Equals(n), {"]"}, Equals(n),
                   Tr(MCOLS \o "_end", "stay", "pop", None))
            \o Set(MCOLS \o "_possible_end_" \o Equals(n), {"]"}, None,
                   Tr(MCOLS \o "_possible_end", "right", "push", ""))
    IN  Set(MCOLS, ALL, None, Tr(MCOLS, "right", "read", None))
        \o Set(MCOLS, {"]"}, None, Tr(MCOLS \o "_possible_end", "right", "push", ""))
        \o Set(MCOLS \o "_possible_end", u8_complement({"=", "]"}), None,
               Tr(MCOLS, "right", "pop", None))
        \o Flatten([k \in DOMAIN (Range(1, EQUALS_TO_SUPPORT)) |-> CountEquals((Range(1, EQUALS_TO_SUPPORT))[k])])
        \o Set(MCOLS \o "_possible_end", {"="}, None,
               Tr(MCOLS \o "_possible_end", "right", "read", None))
        \o Set(MCOLS \o "_possible_end", {"]"}, None,
               Tr(MCOLS \o "_possible_end_2", "stay", "read", None))
        \o Flatten([k \in DOMAIN (Range(0, EQUALS_TO_SUPPORT)) |-> Compare((Range(0, EQUALS_TO_SUPPORT))[k])])

(***************************************************************************)
(* Whitespace / Comments                                                   *)
(***************************************************************************)
\* a long bracket's failed opening that leaves the comment's marker on the
\* stack
CommentRules_marker_left ==
    Set("possible_comment_-", {"-"}, None, Tr("comment_start", "right", "read", None))
    \o Set("comment_start", ALL, None, Tr("comment_single_line", "stay", "read", None))
    \o Set("comment_start", {"["}, None,
           Tr(MCOLS \o "_start", "stay", "push", "multiline_comment"))
    \o Set("comment_single_line", u8_complement({"\r", "\n"}), None,
           Tr("comment_single_line", "right", "read", None))
    \o Set(MCOLS \o "_end", {"]"}, "multiline_comment",
           Tr("comment_multiline_end", "stay", "pop", None))
    \o Set(MCOLS \o "_end_opening_fail", ALL, "multiline_comment",
           Tr("comment_single_line", "stay", "read", None))

CommentRules ==
    Set("possible_comment_-", {"-"}, None, Tr("comment_start", "right", "read", None))
    \o Set("comment_start", ALL, None, Tr("comment_single_line", "stay", "read", None))
    \o Set("comment_start", {"["}, None,
           Tr(MCOLS \o "_start", "stay", "push", "multiline_comment"))
    \o Set("comment_single_line", u8_complement({"\r", "\n"}), None,
           Tr("comment_single_line", "right", "read", None))
    \o Set(MCOLS \o "_end", {"]"}, "multiline_comment",
           Tr("comment_multiline_end", "stay", "pop", None))
    \o Set(MCOLS \o "_end_opening_fail", ALL, "multiline_comment",
           Tr("comment_single_line", "stay", "pop", None))

\* the rules of the names and keywords, with a keyword recognised in front
\* of any byte
NameRules_no_boundary ==
    LET PartialKeyword(keyword) ==
            LET So_far(n) == Set("name_or_keyword", ALL, Prefix(keyword.chars, n),
                                 Tr("name", "stay", "pop", None))
            IN  Flatten([k \in DOMAIN (Range(1, Len(keyword.chars))) |-> So_far((Range(1, Len(keyword.chars)))[k])])
        FullKeyword(keyword) ==
            LET Next_char(n) ==
                    Set("name_or_keyword", {keyword.chars[n]}, Prefix(keyword.chars, n - 1),
                        Tr("name_or_keyword", "right", "replace", Prefix(keyword.chars, n)))
            IN  Set("name_or_keyword", ALL, keyword.name,
                    Tr("keyword_" \o keyword.name, "stay", "pop", None))
                \o Set("name_or_keyword", {keyword.chars[1]}, None,
                       Tr("name_or_keyword", "right", "push", keyword.chars[1]))
                \o Flatten([k \in DOMAIN (Range(2, Len(keyword.chars))) |-> Next_char((Range(2, Len(keyword.chars)))[k])])
    IN  Set("name", IN_LISLALNUM, None, Tr("name", "right", "read", None))
        \o Set("name_or_keyword", IN_LISLALNUM, None, Tr("name", "stay", "read", None))
        \o Flatten([k \in DOMAIN KEYWORDS |-> PartialKeyword(KEYWORDS[k])])
        \o Flatten([k \in DOMAIN KEYWORDS |-> FullKeyword(KEYWORDS[k])])

(***************************************************************************)
(* Names / Keywords                                                        *)
(***************************************************************************)
NameRules ==
    LET PartialKeyword(keyword) ==
            LET So_far(n) == Set("name_or_keyword", ALL, Prefix(keyword.chars, n),
                                 Tr("name", "stay", "pop", None))
            IN  Flatten([k \in DOMAIN (Range(1, Len(keyword.chars))) |-> So_far((Range(1, Len(keyword.chars)))[k])])
        FullKeyword(keyword) ==
            LET Next_char(n) ==
                    Set("name_or_keyword", {keyword.chars[n]}, Prefix(keyword.chars, n - 1),
                        Tr("name_or_keyword", "right", "replace", Prefix(keyword.chars, n)))
            IN  Set("name_or_keyword", NOT_LISLALNUM, keyword.name,
                    Tr("keyword_" \o keyword.name, "stay", "pop", None))
                \o Set("name_or_keyword", {keyword.chars[1]}, None,
                       Tr("name_or_keyword", "right", "push", keyword.chars[1]))
                \o Flatten([k \in DOMAIN (Range(2, Len(keyword.chars))) |-> Next_char((Range(2, Len(keyword.chars)))[k])])
    IN  Set("name", IN_LISLALNUM, None, Tr("name", "right", "read", None))
        \o Set("name_or_keyword", IN_LISLALNUM, None, Tr("name", "stay", "read", None))
        \o Flatten([k \in DOMAIN KEYWORDS |-> PartialKeyword(KEYWORDS[k])])
        \o Flatten([k \in DOMAIN KEYWORDS |-> FullKeyword(KEYWORDS[k])])

(***************************************************************************)
(* Name List                                                               *)
(***************************************************************************)
NameListRules ==
    read_name_or_keyword("name_list_start",
        Tr("name_list_entry_end", "stay", "read", None),
        Tr("name_list_exit_keyword", "stay", "read", None), None)
    \o Set("name_list_entry_end", ALL, None, Tr("name_list_exit_name", "stay", "read", None))
    \o read_whitespace("name_list_entry_end", FAIL_TRANSITION, None)
    \o Set("name_list_entry_end", {","}, None, Tr("name_list_start_2", "right", "read", None))
    \o read_whitespace("name_list_start_2", FAIL_TRANSITION, None)
    \o read_name_or_keyword("name_list_start_2",
           Tr("name_list_entry_end", "stay", "read", None),
           FAIL_TRANSITION, None)

(***************************************************************************)
(* Function Bodies                                                         *)
(***************************************************************************)
\* a parameter list that a comma may end
FunctionBodyRules_trailing_comma ==
    read_whitespace("func_body_start", FAIL_TRANSITION, None)
    \o Set("func_body_start", {"("}, None, Tr("parlist_start", "right", "read", None))
    \o read_whitespace("parlist_start", FAIL_TRANSITION, None)
    \o read_name_or_keyword("parlist_start", Tr("parlist_after_name", "stay", "read", None),
                            FAIL_TRANSITION, None)
    \o read_whitespace("parlist_after_name", FAIL_TRANSITION, None)
    \o Set("parlist_after_name", {","}, None, Tr("parlist_after_comma", "right", "read", None))
    \o read_whitespace("parlist_after_comma", FAIL_TRANSITION, None)
    \o read_name_or_keyword("parlist_after_comma", Tr("parlist_after_name", "stay", "read", None),
                            FAIL_TRANSITION, None)
    \o Set("parlist_start", {"."}, None, Tr("parlist_.", "right", "read", None))
    \o Set("parlist_after_comma", {"."}, None, Tr("parlist_.", "right", "read", None))
    \o Set("parlist_.", {"."}, None, Tr("parlist_..", "right", "read", None))
    \o Set("parlist_..", {"."}, None, Tr("parlist_...", "right", "read", None))
    \o read_whitespace("parlist_...", FAIL_TRANSITION, None)
    \o Set("parlist_start", {")"}, None, Tr("statement", "right", "push", "func_body"))
    \o Set("parlist_after_name", {")"}, None, Tr("statement", "right", "push", "func_body"))
    \o Set("parlist_after_comma", {")"}, None, Tr("statement", "right", "push", "func_body"))
    \o Set("parlist_...", {")"}, None, Tr("statement", "right", "push", "func_body"))

FunctionBodyRules ==
    read_whitespace("func_body_start", FAIL_TRANSITION, None)
    \o Set("func_body_start", {"("}, None, Tr("parlist_start", "right", "read", None))
    \o read_whitespace("parlist_start", FAIL_TRANSITION, None)
    \o read_name_or_keyword("parlist_start", Tr("parlist_after_name", "stay", "read", None),
                            FAIL_TRANSITION, None)
    \o read_whitespace("parlist_after_name", FAIL_TRANSITION, None)
    \o Set("parlist_after_name", {","}, None, Tr("parlist_after_comma", "right", "read", None))
    \o read_whitespace("parlist_after_comma", FAIL_TRANSITION, None)
    \o read_name_or_keyword("parlist_after_comma", Tr("parlist_after_name", "stay", "read", None),
                            FAIL_TRANSITION, None)
    \o Set("parlist_start", {"."}, None, Tr("parlist_.", "right", "read", None))
    \o Set("parlist_after_comma", {"."}, None, Tr("parlist_.", "right", "read", None))
    \o Set("parlist_.", {"."}, None, Tr("parlist_..", "right", "read", None))
    \o Set("parlist_..", {"."}, None, Tr("parlist_...", "right", "read", None))
    \o read_whitespace("parlist_...", FAIL_TRANSITION, None)
    \o Set("parlist_start", {")"}, None, Tr("statement", "right", "push", "func_body"))
    \o Set("parlist_after_name", {")"}, None, Tr("statement", "right", "push", "func_body"))
    \o Set("parlist_...", {")"}, None, Tr("statement", "right", "push", "func_body"))

(***************************************************************************)
(* Short String Literals                                                   *)
(***************************************************************************)
ShortStringRules ==
    Set("short_string_start", {"'"}, None, Tr("short_string", "right", "push", "'"))
    \o Set("short_string_start", {"\""}, None, Tr("short_string", "right", "push", "\""))
    \o Set("short_string", u8_complement({"\r", "\n", "\\"}), None,
           Tr("short_string", "right", "read", None))
    \o Set("short_string", {"\""}, "'", Tr("short_string", "right", "read", None))
    \o Set("short_string", {"'"}, "\"", Tr("short_string", "right", "read", None))
    \o Set("short_string", {"\\"}, None, Tr("short_string_esc_seq", "right", "read", None))
    \o Set("short_string_esc_seq", {"a","b","f","n","r","t","v","\\","\"","'","\n"}, None,
           Tr("short_string", "right", "read", None))
    \o Set("short_string_esc_seq", {"z"}, None, Tr("short_string_esc_seq_z", "right", "read", None))
    \o Set("short_string_esc_seq_z", IN_LISSPACE, None,
           Tr("short_string_esc_seq_z", "right", "read", None))
    \o Set("short_string_esc_seq_z", NOT_LISSPACE, None, Tr("short_string", "stay", "read", None))
    \o Set("short_string_esc_seq", {"x"}, None, Tr("short_string_esc_seq_x", "right", "read", None))
    \o Set("short_string_esc_seq_x", HEX_DIGITS, None,
           Tr("short_string_esc_seq_x_X", "right", "read", None))
    \o Set("short_string_esc_seq_x_X", HEX_DIGITS, None, Tr("short_string", "right", "read", None))

\* every digit taken as the third digit of \25d
DIGITS_AFTER_25_any == DIGITS

\* the third digits that keep \25d at 255 or below
DIGITS_AFTER_25 == {"0", "1", "2", "3", "4", "5"}

ShortStringDecimalEscapeRules ==
    Set("short_string_esc_seq", {"0", "1"}, None, Tr("short_string_esc_seq_01", "right", "read", None))
    \o Set("short_string_esc_seq_01", DIGITS, None,
           Tr("short_string_esc_seq_01_*", "right", "read", None))
    \o Set("short_string_esc_seq_01_*", DIGITS, None, Tr("short_string", "right", "read", None))
    \o Set("short_string_esc_seq_01", u8_complement(DIGITS), None,
           Tr("short_string", "stay", "read", None))
    \o Set("short_string_esc_seq_01_*", u8_complement(DIGITS), None,
           Tr("short_string", "stay", "read", None))
    \o Set("short_string_esc_seq", {"3","4","5","6","7","8","9"}, None,
           Tr("short_string_esc_seq_3-9", "right", "read", None))
    \o Set("short_string_esc_seq_3-9", DIGITS, None,
           Tr("short_string_esc_seq_3-9_*", "right", "read", None))
    \o Set("short_string_esc_seq_3-9", u8_complement(DIGITS), None,
           Tr("short_string", "stay", "read", None))
    \o Set("short_string_esc_seq_3-9_*", u8_complement(DIGITS), None,
           Tr("short_string", "stay", "read", None))
    \o Set("short_string_esc_seq", {"2"}, None, Tr("short_string_esc_seq_2", "right", "read", None))
    \o Set("short_string_esc_seq_2", {"0","1","2","3","4"}, None,
           Tr("short_string_esc_seq_2_0-4", "right", "read", None))
    \o Set("short_string_esc_seq_2", {"5"}, None,
           Tr("short_string_esc_seq_2_5", "right", "read", None))
    \o Set("short_string_esc_seq_2", {"6","7","8","9"}, None,
           Tr("short_string_esc_seq_2_6-9", "right", "read", None))
    \o Set("short_string_esc_seq_2", u8_complement(DIGITS), None,
           Tr("short_string", "stay", "read", None))
    \o Set("short_string_esc_seq_2_0-4", DIGITS, None, Tr("short_string", "right", "read", None))
    \o Set("short_string_esc_seq_2_0-4", u8_complement(DIGITS), None,
           Tr("short_string", "stay", "read", None))
    \o Set("short_string_esc_seq_2_6-9", u8_complement(DIGITS), None,
           Tr("short_string", "stay", "read", None))
    \o Set("short_string_esc_seq_2_5", DIGITS_AFTER_25, None,
           Tr("short_string", "right", "read", None))
    \o Set("short_string_esc_seq_2_5", u8_complement(DIGITS), None,
           Tr("short_string", "stay", "read", None))

\* how many hex digits are read after a first nonzero digit 1-7
MORE_DIGITS_AFTER_1_7 == 7

\* as many hex digits read after a first digit 8-F as after 1-7
MORE_DIGITS_AFTER_8_F_seven == MORE_DIGITS_AFTER_1_7

\* how many hex digits are read after a first digit 8-F
MORE_DIGITS_AFTER_8_F == 6

ShortStringUnicodeEscapeRules ==
    LET U == "short_string_esc_seq_u{"
        \* the state after n more digits
        More(first, n) == U \o first \o (IF n = 0 THEN "" ELSE "_+" \o ToString(n))
        More17(n) == Set(More("_1-7", n - 1), HEX_DIGITS, None,
                         Tr(More("_1-7", n), "right", "read", None))
        More8F(n) == Set(More("_8-F", n - 1), HEX_DIGITS, None,
                         Tr(More("_8-F", n), "right", "read", None))
        Close17(n) == Set(More("_1-7", n), {"}"}, None, Tr("short_string", "right", "read", None))
        Close8F(n) == Set(More("_8-F", n), {"}"}, None, Tr("short_string", "right", "read", None))
    IN  Set("short_string_esc_seq", {"u"}, None, Tr("short_string_esc_seq_u", "right", "read", None))
        \o Set("short_string_esc_seq_u", {"{"}, None, Tr(U, "right", "read", None))
        \o Set(U, {"0"}, None, Tr(U \o "_0", "right", "read", None))
        \o Set(U \o "_0", {"0"}, None, Tr(U \o "_0", "right", "read", None))
        \o Set(U, {"1","2","3","4","5","6","7"}, None, Tr(U \o "_1-7", "right", "read", None))
        \o Set(U \o "_0", {"1","2","3","4","5","6","7"}, None,
               Tr(U \o "_1-7", "right", "read", None))
        \o Set(U, {"8", "9"} \cup ONLY_HEX_DIGITS, None, Tr(U \o "_8-F", "right", "read", None))
        \o Set(U \o "_0", {"8", "9"} \cup ONLY_HEX_DIGITS, None,
               Tr(U \o "_8-F", "right", "read", None))
        \o Flatten([k \in DOMAIN (Range(1, MORE_DIGITS_AFTER_1_7)) |-> More17((Range(1, MORE_DIGITS_AFTER_1_7))[k])])
        \o Flatten([k \in DOMAIN (Range(1, MORE_DIGITS_AFTER_8_F)) |-> More8F((Range(1, MORE_DIGITS_AFTER_8_F))[k])])
        \o Set(U \o "_0", {"}"}, None, Tr("short_string", "right", "read", None))
        \o Flatten([k \in DOMAIN (Range(0, MORE_DIGITS_AFTER_1_7)) |-> Close17((Range(0, MORE_DIGITS_AFTER_1_7))[k])])
        \o Flatten([k \in DOMAIN (Range(0, MORE_DIGITS_AFTER_8_F)) |-> Close8F((Range(0, MORE_DIGITS_AFTER_8_F))[k])])

\* a short string that either quote closes
ShortStringEndRules_either_quote ==
    Set("short_string", {"'", "\""}, "'", Tr("short_string_end", "right", "pop", None))
    \o Set("short_string", {"'", "\""}, "\"", Tr("short_string_end", "right", "pop", None))

ShortStringEndRules ==
    Set("short_string", {"'"}, "'", Tr("short_string_end", "right", "pop", None))
    \o Set("short_string", {"\""}, "\"", Tr("short_string_end", "right", "pop", None))

(***************************************************************************)
(* Table Constructors                                                      *)
(***************************************************************************)
TableConstructorRules ==
    LET F == FAIL_TRANSITION
        TC == "table_constructor"
    IN  Set(TC \o "_start", {"{"}, None, Tr(TC \o "_whitespace_before_field", "right", "read", None))
        \* Whitespace before field
        \o Set(TC \o "_whitespace_before_field", ALL, None,
               Tr(TC \o "_before_field", "stay", "read", None))
        \o read_whitespace(TC \o "_whitespace_before_field",
                           Tr(TC \o "_before_field_-", "stay", "read", None), None)
        \* field ::= [ exp ] = exp
        \o Set(TC \o "_before_field", ALL, None, Tr(TC \o "_field_[", "right", "read", None))
        \o Set(TC \o "_field_[", u8_complement({"[", "="}), None,
               Tr(TC \o "_field_[_before_exp", "stay", "read", None))
        \o Set(TC \o "_field_[", {"["}, None, Tr(TC \o "_field_[[_or_[=", "stay", "read", None))
        \o Set(TC \o "_field_[", {"="}, None, Tr(TC \o "_field_[[_or_[=", "stay", "read", None))
        \* field ::= exp      WHERE exp is a long-form string literal
        \o Set(TC \o "_field_[[_or_[=", {"["}, None,
               Tr(MCOLS \o "_start_2", "stay", "push", TC \o "_long_string_field_exp"))
        \o Set(TC \o "_field_[[_or_[=", {"="}, None,
               Tr(MCOLS \o "_start_2", "stay", "push", TC \o "_long_string_field_exp"))
        \o Set(MCOLS \o "_end", {"]"}, TC \o "_long_string_field_exp",
               Tr(TC \o "_field_after_name_or_exp_before_whitespace", "right", "push",
                  "not_only_name"))
        \o Set(TC \o "_field_after_name_or_exp_before_whitespace", ALL, None,
               Tr(TC \o "_field_after_name_or_exp", "stay", "read", None))
        \o read_whitespace(TC \o "_field_after_name_or_exp_before_whitespace", F, None)
        \* field ::= [ exp ] = exp
        \o read_expression(TC \o "_field_[_before_exp",
               Tr(TC \o "_field_[_exp", "stay", "read", None),
               F, F, F, F, F, F, F, F, F, None, FALSE)
        \o Set(TC \o "_field_[_exp", {"]"}, None, Tr(TC \o "_field_[_exp_]", "right", "read", None))
        \o read_whitespace(TC \o "_field_[_exp_]", F, None)
        \o Set(TC \o "_field_[_exp_]", {"="}, None,
               Tr(TC \o "_field_[_exp_]_=", "right", "read", None))
        \o read_expression(TC \o "_field_[_exp_]_=",
               Tr(TC \o "_field_[_exp_]_=_exp", "stay", "read", None),
               F, F, F, F, F, F, F, F, F, None, FALSE)
        \o Set(TC \o "_field_[_exp_]_=_exp", {","}, None,
               Tr(TC \o "_whitespace_before_field", "right", "read", None))
        \o Set(TC \o "_field_[_exp_]_=_exp", {";"}, None,
               Tr(TC \o "_whitespace_before_field", "right", "read", None))
        \* "field ::= Name = exp" AND "field ::= exp"
        \o Set(TC \o "_before_field", u8_complement({"["}), None,
               Tr(TC \o "_field_name_or_exp", "stay", "push", "did_not_have_minus"))
        \o Set(TC \o "_before_field_-", u8_complement({"["}), None,
               Tr(TC \o "_field_name_or_exp", "stay", "push", "had_minus"))
        \o read_expression(TC \o "_field_name_or_exp",
               Tr(TC \o "_field_after_name_or_exp", "stay", "read", None),
               F, F, F, F, F, F,
               Tr(TC \o "_field_after_name_or_exp_=_(1)", "stay", "read", None),
               F, F, None, TRUE)
        \* field ::= Name = exp
        \o Set(TC \o "_field_after_name_or_exp_=_(1)", ALL, "only_name",
               Tr(TC \o "_field_name_=_(2)", "stay", "pop", None))
        \o Set(TC \o "_field_name_=_(2)", ALL, "did_not_have_minus",
               Tr(TC \o "_field_name_=_(3)", "stay", "pop", None))
        \o read_expression(TC \o "_field_name_=_(3)",
               Tr(TC \o "_field_name_=_exp", "stay", "read", None),
               F, F, F, F, F, F, F, F, F, None, FALSE)
        \o Set(TC \o "_field_name_=_exp", {","}, None,
               Tr(TC \o "_whitespace_before_field", "right", "read", None))
        \o Set(TC \o "_field_name_=_exp", {";"}, None,
               Tr(TC \o "_whitespace_before_field", "right", "read", None))
        \* field ::= exp
        \o Set(TC \o "_field_after_name_or_exp", {","}, None,
               Tr(TC \o "_field_after_exp", "stay", "pop", None))
        \o Set(TC \o "_field_after_exp", {","}, None,
               Tr(TC \o "_whitespace_before_field", "right", "pop", None))
        \o Set(TC \o "_field_after_name_or_exp", {";"}, None,
               Tr(TC \o "_field_after_exp", "stay", "pop", None))
        \o Set(TC \o "_field_after_exp", {";"}, None,
               Tr(TC \o "_whitespace_before_field", "right", "pop", None))
        \* Exiting
        \o Set(TC \o "_whitespace_before_field", {"}"}, None, Tr(TC \o "_end", "right", "read", None))
        \o Set(TC \o "_field_[_exp_]_=_exp", {"}"}, None, Tr(TC \o "_end", "right", "read", None))
        \o Set(TC \o "_field_name_=_exp", {"}"}, None, Tr(TC \o "_end", "right", "read", None))
        \o Set(TC \o "_field_after_name_or_exp", {"}"}, None,
               Tr(TC \o "_field_after_exp_}", "stay", "pop", None))
        \o Set(TC \o "_field_after_exp_}", {"}"}, None, Tr(TC \o "_end", "right", "pop", None))

(***************************************************************************)
(* L-values & R-values                                                     *)
(***************************************************************************)
\* an lrvalue whose parenthesised expression counts as a single name
LRvalueEntryRules_parenthesised_only_name ==
    LET F == FAIL_TRANSITION
    IN  Set("lrvalue_start_1", IN_LISLALPHA, None,
            Tr("lrvalue_start_1_name_or_keyword", "stay", "read", None))
        \o Set("lrvalue_start_1", {"("}, None, Tr("lrvalue_start_1_expression", "right", "read", None))
        \o read_expression("lrvalue_start_1_expression",
               Tr("lrvalue_start_1_expression_end", "stay", "read", None),
               F, F, F, F, F, F, F, F, F, None, FALSE)
        \o lrvalue_init_stack_state_and_read_next_part("lrvalue_start_1_expression_end",
               {")"}, "right", "rvalue", "only_name", "not_function_call")
        \o read_name_or_keyword("lrvalue_start_1_name_or_keyword",
               Tr("lrvalue_start_1_name", "stay", "read", None),
               Tr("lrvalue_exit_keyword", "stay", "read", None), None)
        \o lrvalue_init_stack_state_and_read_next_part("lrvalue_start_1_name",
               ALL, "stay", "lvalue_or_rvalue", "only_name", "not_function_call")
        \o lrvalue_init_stack_state_and_read_next_part("lrvalue_start_2",
               ALL, "stay", "lvalue_or_rvalue", "only_name", "not_function_call")

LRvalueEntryRules ==
    LET F == FAIL_TRANSITION
    IN  \* Entry point 1: haven't read a name yet
        Set("lrvalue_start_1", IN_LISLALPHA, None,
            Tr("lrvalue_start_1_name_or_keyword", "stay", "read", None))
        \o Set("lrvalue_start_1", {"("}, None, Tr("lrvalue_start_1_expression", "right", "read", None))
        \o read_expression("lrvalue_start_1_expression",
               Tr("lrvalue_start_1_expression_end", "stay", "read", None),
               F, F, F, F, F, F, F, F, F, None, FALSE)
        \o lrvalue_init_stack_state_and_read_next_part("lrvalue_start_1_expression_end",
               {")"}, "right", "rvalue", "not_only_name", "not_function_call")
        \o read_name_or_keyword("lrvalue_start_1_name_or_keyword",
               Tr("lrvalue_start_1_name", "stay", "read", None),
               Tr("lrvalue_exit_keyword", "stay", "read", None), None)
        \o lrvalue_init_stack_state_and_read_next_part("lrvalue_start_1_name",
               ALL, "stay", "lvalue_or_rvalue", "only_name", "not_function_call")
        \* Entry point 2: already read a name
        \o lrvalue_init_stack_state_and_read_next_part("lrvalue_start_2",
               ALL, "stay", "lvalue_or_rvalue", "only_name", "not_function_call")

LRvalueNextPartRules ==
    LET Switch(c, next_state, direction) ==
            Set("lrvalue_read_next_part", {c}, None, Tr(next_state, direction, "read", None))
        SwitchColon(c, next_state, direction) ==
            Set("lrvalue_read_next_part_:", {c}, None, Tr(next_state, direction, "read", None))
    IN  Set("lrvalue_read_next_part", ALL, None, Tr("lrvalue_exit", "stay", "read", None))
        \o read_whitespace("lrvalue_read_next_part", Tr("lrvalue_-_exit", "stay", "read", None), None)
        \o read_whitespace("lrvalue_read_next_part_:", FAIL_TRANSITION, None)
        \o Switch("(", "lrvalue_read_func_args_(", "right")
        \o SwitchColon("(", "lrvalue_read_func_args_(", "right")
        \o Switch("{", "lrvalue_read_func_args_{", "stay")
        \o SwitchColon("{", "lrvalue_read_func_args_{", "stay")
        \o Switch("'", "lrvalue_read_func_args_\"", "stay")
        \o SwitchColon("'", "lrvalue_read_func_args_\"", "stay")
        \o Switch("\"", "lrvalue_read_func_args_\"", "stay")
        \o SwitchColon("\"", "lrvalue_read_func_args_\"", "stay")
        \o Switch("[", "lrvalue_read_[", "right")
        \o SwitchColon("[", "lrvalue_read_[_after_:", "right")
        \o Switch(".", "lrvalue_read_.", "right")
        \o Switch(":", "lrvalue_read_:", "right")

LRvalueFunctionArgumentRules ==
    LET F == FAIL_TRANSITION
    IN  \* ( )
        read_expression_list("lrvalue_read_func_args_(",
            Tr("lrvalue_read_func_args_(_)", "right", "read", None),
            F, F, F, F, F,
            Tr("lrvalue_read_func_args_(_)", "stay", "read", None),
            F, F, None)
        \o lrvalue_set_stack_state_and_read_next_part("lrvalue_read_func_args_(_)",
               ALL, "stay", "rvalue", "not_only_name", "function_call", FALSE)
        \* { }
        \o Set("lrvalue_read_func_args_{", {"{"}, None,
               Tr("table_constructor_start", "stay", "push", "lrvalue_read_func_args_{}"))
        \o Set("table_constructor_end", ALL, "lrvalue_read_func_args_{}",
               Tr("lrvalue_read_func_args_{_}", "stay", "pop", None))
        \o lrvalue_set_stack_state_and_read_next_part("lrvalue_read_func_args_{_}",
               ALL, "stay", "rvalue", "not_only_name", "function_call", FALSE)
        \* ' ' or " "
        \o Set("lrvalue_read_func_args_\"", {"'", "\""}, None,
               Tr("short_string_start", "stay", "push", "lrvalue_short_string"))
        \o Set("short_string_end", ALL, "lrvalue_short_string",
               Tr("lrvalue_read_func_args_\"_\"", "stay", "pop", None))
        \o lrvalue_set_stack_state_and_read_next_part("lrvalue_read_func_args_\"_\"",
               ALL, "stay", "rvalue", "not_only_name", "function_call", FALSE)

LRvalueBracketRules ==
    LET F == FAIL_TRANSITION
    IN  Set("lrvalue_read_[", u8_complement({"[", "="}), None,
            Tr("lrvalue_read_[_membership", "stay", "replace", "lvalue_or_rvalue"))
        \o Set("lrvalue_read_[", {"["}, None, Tr("lrvalue_read_[[_func_args", "stay", "read", None))
        \o Set("lrvalue_read_[_after_:", {"["}, None,
               Tr("lrvalue_read_[[_func_args", "stay", "read", None))
        \o Set("lrvalue_read_[", {"="}, None, Tr("lrvalue_read_[[_func_args", "stay", "read", None))
        \o Set("lrvalue_read_[_after_:", {"="}, None,
               Tr("lrvalue_read_[[_func_args", "stay", "read", None))
        \* ([[]] or [==[]==] long string func args)
        \o Set("lrvalue_read_[[_func_args", {"["}, None,
               Tr(MCOLS \o "_start_2", "stay", "push", "lrvalue_long_string_func_args"))
        \o Set("lrvalue_read_[[_func_args", {"="}, None,
               Tr(MCOLS \o "_start_2", "stay", "push", "lrvalue_long_string_func_args"))
        \o Set(MCOLS \o "_end", {"]"}, "lrvalue_long_string_func_args",
               Tr("lrvalue_read_[[_func_args_]]", "stay", "pop", None))
        \o lrvalue_set_stack_state_and_read_next_part("lrvalue_read_[[_func_args_]]",
               {"]"}, "right", "rvalue", "not_only_name", "function_call", FALSE)
        \* ([] table membership)
        \o read_expression("lrvalue_read_[_membership",
               Tr("lrvalue_read_[_membership_exp", "stay", "read", None),
               F, F, F, F, F, F, F, F, F, None, FALSE)
        \o lrvalue_set_stack_state_and_read_next_part("lrvalue_read_[_membership_exp",
               {"]"}, "right", "lvalue_or_rvalue", "not_only_name", "not_function_call", FALSE)

\* the suffix rules with ":" Name handled as "." Name is
LRvalueNameSuffixRules_colon_as_period ==
    Set("lrvalue_read_.", ALL, None, Tr("lrvalue_read_._after_whitespace", "stay", "read", None))
    \o Set("lrvalue_read_.", {"."}, None, Tr("lrvalue_._exit", "stay", "read", None))
    \o read_whitespace("lrvalue_read_.", FAIL_TRANSITION, None)
    \o read_name_or_keyword("lrvalue_read_._after_whitespace",
           Tr("lrvalue_read_._name", "stay", "read", None), FAIL_TRANSITION, None)
    \o lrvalue_set_stack_state_and_read_next_part("lrvalue_read_._name",
           ALL, "stay", "lvalue_or_rvalue", "not_only_name", "not_function_call", FALSE)
    \o Set("lrvalue_read_:", ALL, None, Tr("lrvalue_read_:_after_whitespace", "stay", "read", None))
    \o Set("lrvalue_read_:", {":"}, None, Tr("lrvalue_:_exit", "stay", "read", None))
    \o read_whitespace("lrvalue_read_:", FAIL_TRANSITION, None)
    \o read_name_or_keyword("lrvalue_read_:_after_whitespace",
           Tr("lrvalue_read_:_name", "stay", "read", None), FAIL_TRANSITION, None)
    \o lrvalue_set_stack_state_and_read_next_part("lrvalue_read_:_name",
           ALL, "stay", "lvalue_or_rvalue", "not_only_name", "not_function_call", FALSE)

LRvalueNameSuffixRules ==
    \* .
    Set("lrvalue_read_.", ALL, None, Tr("lrvalue_read_._after_whitespace", "stay", "read", None))
    \o Set("lrvalue_read_.", {"."}, None, Tr("lrvalue_._exit", "stay", "read", None))
    \o read_whitespace("lrvalue_read_.", FAIL_TRANSITION, None)
    \o read_name_or_keyword("lrvalue_read_._after_whitespace",
           Tr("lrvalue_read_._name", "stay", "read", None), FAIL_TRANSITION, None)
    \o lrvalue_set_stack_state_and_read_next_part("lrvalue_read_._name",
           ALL, "stay", "lvalue_or_rvalue", "not_only_name", "not_function_call", FALSE)
    \* :
    \o Set("lrvalue_read_:", ALL, None, Tr("lrvalue_read_:_after_whitespace", "stay", "read", None))
    \o Set("lrvalue_read_:", {":"}, None, Tr("lrvalue_:_exit", "stay", "read", None))
    \o read_whitespace("lrvalue_read_:", FAIL_TRANSITION, None)
    \o read_name_or_keyword("lrvalue_read_:_after_whitespace",
           Tr("lrvalue_read_:_name", "stay", "read", None), FAIL_TRANSITION, None)
    \o lrvalue_set_stack_state_and_read_next_part("lrvalue_read_:_name",
           ALL, "stay", "rvalue", "not_only_name", "function_call", TRUE)

(***************************************************************************)
(* Expressions                                                             *)
(***************************************************************************)
ONE_CHAR_BINOPS == {"+", "-", "*", "/", "^", "%", "&", "~", "|", "<", ">"}

TWO_CHAR_BINOPS == <<"//", ">>", "<<", "..", "<=", ">=", "==", "~=">>

ExpressionBinopRules ==
    LET NON == "not_only_name"
        TwoChar(bo) ==
            LET c1 == SubSeq(bo, 1, 1)
                c2 == SubSeq(bo, 2, 2)
                all_c2s_for_this_c1 ==
                    {SubSeq(TWO_CHAR_BINOPS[k], 2, 2) :
                        k \in {j \in 1..Len(TWO_CHAR_BINOPS) :
                                   SubSeq(TWO_CHAR_BINOPS[j], 1, 1) = c1}}
            IN  Set("expression_binop-or-end", {c1}, None,
                    Tr("expression_binop_" \o c1, "right", "read", None))
                \o Set("expression_binop_" \o c1, {c2}, None,
                       Tr("expression_restart", "right", "replace", NON))
                \o (IF c1 \in ONE_CHAR_BINOPS
                    THEN Set("expression_binop_" \o c1, u8_complement(all_c2s_for_this_c1), None,
                             Tr("expression_restart", "stay", "replace", NON))
                    ELSE << >>)
    IN  \* helper states
        Set("expression_binop-or-end_with_not_only_name", ALL, None,
            Tr("expression_binop-or-end", "stay", "replace", NON))
        \o Set("expression_restart", ALL, None, Tr("expression", "stay", "read", None))
        \o read_whitespace("expression_restart",
                           Tr("expression_restart", "stay", "read", None), None)
        \* Binary operators
        \o Set("expression_binop-or-end", ALL, None, Tr("expression_exit", "stay", "read", None))
        \o Set("expression_binop-or-end", ONE_CHAR_BINOPS, None,
               Tr("expression_restart", "right", "replace", NON))
        \o Flatten([k \in DOMAIN TWO_CHAR_BINOPS |-> TwoChar(TWO_CHAR_BINOPS[k])])
        \o Set("expression_binop_=", u8_complement({"="}), None,
               Tr("expression_exit_=", "stay", "read", None))
        \* "and" / "or"
        \o Set("expression_binop-or-end", {"a"}, None,
               Tr("expression_binop_andoror", "stay", "read", None))
        \o Set("expression_binop-or-end", {"o"}, None,
               Tr("expression_binop_andoror", "stay", "read", None))
        \o read_name_or_keyword("expression_binop_andoror",
               Tr("expression_exit_trailing_name", "stay", "read", None),
               Tr("expression_binop_andoror_keyword", "stay", "read", None), None)
        \o Set("expression_binop_andoror_keyword", ALL, "and",
               Tr("expression_binop_and", "stay", "pop", None))
        \o Set("expression_binop_and", ALL, None, Tr("expression_restart", "stay", "replace", NON))
        \o Set("expression_binop_andoror_keyword", ALL, "or",
               Tr("expression_binop_or", "stay", "pop", None))
        \o Set("expression_binop_or", ALL, None, Tr("expression_restart", "stay", "replace", NON))
        \o read_whitespace("expression_binop-or-end",
                           Tr("expression_restart", "stay", "replace", NON), None)

ExpressionNameRules ==
    LET NON == "not_only_name"
        AfterLrvalue(has_colon) ==
            LET ealrv == "expression_after_lrvalue" \o (IF has_colon THEN "_:" ELSE "")
                target == IF has_colon THEN "expression_exit_:" ELSE "expression_binop-or-end"
            IN  Set(ealrv, ALL, None, Tr(ealrv \o "_2", "stay", "pop", None))
                \o Set(ealrv \o "_2", ALL, "only_name",
                       Tr(ealrv \o "__only_name", "stay", "pop", None))
                \o Set(ealrv \o "_2", ALL, "not_only_name",
                       Tr(ealrv \o "__not_only_name", "stay", "pop", None))
                \o Set(ealrv \o "__only_name", ALL, "beginning",
                       Tr(target, "stay", "replace", "only_name"))
                \o Set(ealrv \o "__only_name", ALL, None, Tr(target, "stay", "replace", NON))
                \o Set(ealrv \o "__not_only_name", ALL, None, Tr(target, "stay", "replace", NON))
        AfterLrvalueMod(mod) ==
            Set("expression_after_lrvalue" \o mod, ALL, None,
                Tr("expression_after_lrvalue" \o mod \o "_2", "stay", "pop", None))
            \o Set("expression_after_lrvalue" \o mod \o "_2", ALL, None,
                   Tr("expression_after_lrvalue" \o mod \o "_3", "stay", "pop", None))
    IN  \* Expressions that start with a name or keyword
        read_name_or_keyword("expression",
            Tr("expression_starting_with_name", "stay", "read", None),
            Tr("expression_starting_with_keyword", "stay", "read", None), None)
        \* Expressions that start with a name
        \o read_lvalue_or_rvalue("expression_starting_with_name", TRUE,
               Tr("expression_after_lrvalue", "stay", "read", None),
               Tr("expression_after_lrvalue_-", "stay", "read", None),
               Tr("expression_after_lrvalue_.", "stay", "read", None),
               Tr("expression_after_lrvalue_:", "stay", "read", None),
               FAIL_TRANSITION, TRUE, FALSE)
        \o AfterLrvalue(FALSE)
        \o AfterLrvalue(TRUE)
        \o AfterLrvalueMod("_-")
        \o AfterLrvalueMod("_.")
        \o Set("expression_after_lrvalue_-_3", ALL, None,
               Tr("expression_restart", "stay", "replace", NON))
        \o Set("expression_after_lrvalue_._3", {"."}, None,
               Tr("expression_restart", "right", "replace", NON))

ExpressionKeywordRules ==
    LET From(keyword, to) == Set("expression_starting_with_keyword", NOT_LISLALNUM, keyword, to)
        WithNon == Tr("expression_binop-or-end_with_not_only_name", "stay", "pop", None)
    IN  From("nil", WithNon)
        \o From("false", WithNon)
        \o From("true", WithNon)
        \o From("end", Tr("expression_exit_end", "stay", "pop", None))
        \o From("elseif", Tr("expression_exit_elseif", "stay", "pop", None))
        \o From("else", Tr("expression_exit_else", "stay", "pop", None))
        \o From("until", Tr("expression_exit_until", "stay", "pop", None))
        \o From("function", Tr("func_body_start", "stay", "replace", "expression_function"))
        \o From("not", Tr("expression_not", "stay", "pop", None))
        \o Set("expression_not", NOT_LISLALNUM, None,
               Tr("expression_restart", "stay", "replace", "not_only_name"))

ExpressionPunctuationRules ==
    LET NON == "not_only_name"
    IN  Set("expression", {";"}, "beginning", Tr("expression_exit_;", "right", "read", None))
        \o Set("expression", {")"}, "beginning", Tr("expression_exit_)", "right", "read", None))
        \* "..." expression
        \o Set("expression", {"."}, None, Tr("expression_.", "right", "replace", NON))
        \o Set("expression_.", {"."}, None, Tr("expression_..", "right", "read", None))
        \o Set("expression_..", {"."}, None, Tr("expression_binop-or-end", "right", "read", None))
        \o Set("expression_.", DIGITS, None,
               Tr("expression_numeric_after_.", "right", "push", "number_dec"))
        \* Table constructor expression
        \o Set("expression", {"{"}, None,
               Tr("table_constructor_start", "stay", "push", "expression_table_constructor"))
        \o Set("table_constructor_end", ALL, "expression_table_constructor",
               Tr("expression_table_constructor_end", "stay", "pop", None))
        \o Set("expression_table_constructor_end", ALL, None,
               Tr("expression_binop-or-end", "stay", "replace", NON))
        \* Expression starting with '(': handle as LRvalue
        \o Set("expression", {"("}, None, Tr("expression_(", "stay", "read", None))
        \o read_lvalue_or_rvalue("expression_(", FALSE,
               Tr("expression_after_lrvalue", "stay", "read", None),
               Tr("expression_after_lrvalue_-", "stay", "read", None),
               Tr("expression_after_lrvalue_.", "stay", "read", None),
               Tr("expression_after_lrvalue_:", "stay", "read", None),
               FAIL_TRANSITION, TRUE, FALSE)
        \* unary operators
        \o Set("expression", {"-"}, None, Tr("expression_restart", "right", "replace", NON))
        \o Set("expression", {"#"}, None, Tr("expression_restart", "right", "replace", NON))
        \o Set("expression", {"~"}, None, Tr("expression_restart", "right", "replace", NON))

ExpressionNumeralRules ==
    LET R(to) == Tr(to, "right", "read", None)
        ExponentMarker(pre_state) ==
            Set(pre_state, {"e"}, "number_dec", R("expression_numeric_exp"))
            \o Set(pre_state, {"E"}, "number_dec", R("expression_numeric_exp"))
            \o Set(pre_state, {"p"}, "number_hex", R("expression_numeric_exp"))
            \o Set(pre_state, {"P"}, "number_hex", R("expression_numeric_exp"))
        Period(pre_state) == Set(pre_state, {"."}, None, R("expression_numeric_after_."))
        ExitFrom(stateToExitFrom) ==
            Set(stateToExitFrom, without(NOT_LISLALNUM, {"."}), None,
                Tr("expression_binop-or-end", "stay", "pop", None))
    IN  Set("expression", DIGITS, None,
            Tr("expression_starting_with_digit", "stay", "replace", "not_only_name"))
        \o Set("expression_starting_with_digit", DIGITS, None,
               Tr("expression_numeric", "right", "push", "number_dec"))
        \o Set("expression_starting_with_digit", {"0"}, None,
               Tr("expression_0", "right", "push", "number_dec"))
        \* hexadecimal
        \o Set("expression_0", {"x"}, None, Tr("expression_0x", "right", "replace", "number_hex"))
        \o Set("expression_0", {"X"}, None, Tr("expression_0x", "right", "replace", "number_hex"))
        \o Set("expression_0x", HEX_DIGITS, None, R("expression_numeric"))
        \o Set("expression_0", DIGITS, None, R("expression_numeric"))
        \o Set("expression_numeric", DIGITS, None, R("expression_numeric"))
        \o Set("expression_numeric", ONLY_HEX_DIGITS, "number_hex", R("expression_numeric"))
        \* "."
        \o Flatten([k \in DOMAIN (<<"expression_0", "expression_0x", "expression_numeric">>) |-> Period((<<"expression_0", "expression_0x", "expression_numeric">>)[k])])
        \o Set("expression_numeric_after_.", DIGITS, None, R("expression_numeric_after_."))
        \o Set("expression_numeric_after_.", ONLY_HEX_DIGITS, "number_hex",
               R("expression_numeric_after_."))
        \* exponent
        \o Flatten([k \in DOMAIN (<<"expression_0", "expression_numeric", "expression_numeric_after_.">>) |-> ExponentMarker((<<"expression_0", "expression_numeric", "expression_numeric_after_.">>)[k])])
        \o Set("expression_numeric_exp", {"+"}, None, R("expression_numeric_exp_+-"))
        \o Set("expression_numeric_exp", {"-"}, None, R("expression_numeric_exp_+-"))
        \o Set("expression_numeric_exp", DIGITS, None, R("expression_numeric_exp_value"))
        \o Set("expression_numeric_exp_+-", DIGITS, None, R("expression_numeric_exp_value"))
        \o Set("expression_numeric_exp_value", DIGITS, None, R("expression_numeric_exp_value"))
        \* exits
        \o Flatten([k \in DOMAIN (<<"expression_0", "expression_numeric", "expression_numeric_after_.", "expression_numeric_exp_value">>) |-> ExitFrom((<<"expression_0", "expression_numeric", "expression_numeric_after_.", "expression_numeric_exp_value">>)[k])])

ExpressionStringAndFunctionRules ==
    LET NON == "not_only_name"
    IN  \* Short literal strings
        Set("expression", {"'", "\""}, None,
            Tr("expression_starting_with_quote", "stay", "replace", NON))
        \o Set("expression_starting_with_quote", {"'", "\""}, None,
               Tr("short_string_start", "stay", "push", "expression_short_string"))
        \o Set("short_string_end", ALL, "expression_short_string",
               Tr("expression_binop-or-end", "stay", "pop", None))
        \* Long strings
        \o Set("expression", {"["}, None,
               Tr("expression_starting_with_[", "stay", "replace", NON))
        \o Set("expression_starting_with_[", {"["}, None,
               Tr(MCOLS \o "_start", "stay", "push", "long_string"))
        \o Set(MCOLS \o "_end", {"]"}, "long_string",
               Tr("expression_binop-or-end", "right", "pop", None))
        \* Function expressions
        \o Set("func_body_end", ALL, "expression_function",
               Tr("expression_after_func_body", "stay", "pop", None))
        \o Set("expression_after_func_body", ALL, None,
               Tr("expression_binop-or-end", "stay", "replace", NON))

(***************************************************************************)
(* Expression Lists                                                        *)
(***************************************************************************)
ExpressionListRules ==
    LET F == FAIL_TRANSITION
        S(to) == Tr(to, "stay", "read", None)
    IN  read_expression("expression_list_start",
            S("expression_list_entry_end"),
            S("expression_list_exit_end"),
            S("expression_list_exit_elseif"),
            S("expression_list_exit_else"),
            S("expression_list_exit_until"),
            S("expression_list_exit_;"),
            S("expression_list_exit_)"),
            F,
            S("expression_list_exit_trailing_name"),
            S("expression_list_exit_:"),
            None, FALSE)
        \o Set("expression_list_entry_end", ALL, None, S("expression_list_exit"))
        \o Set("expression_list_entry_end", {","}, None,
               Tr("expression_list_start_2", "right", "read", None))
        \o read_expression("expression_list_start_2",
               S("expression_list_entry_end"),
               F, F, F, F, F, F, F,
               S("expression_list_exit_trailing_name"),
               F, None, FALSE)

(***************************************************************************)
(* Statements                                                              *)
(***************************************************************************)
\* {value_on_top_of_stack: destination_state_after_reading_end_keyword}
STACK_VALUES_POPPED_BY_END_KEYWORD ==
    << <<"statement_do", "statement">>,
       <<"statement_while", "statement">>,
       <<"statement_if", "statement">>,
       <<"statement_for", "statement">>,
       <<"func_body", "func_body_end">> >>

StatementPunctuationRules_semicolon_pops ==
    LET F == FAIL_TRANSITION
    IN  Set("block", ALL, None, Tr("statement", "stay", "push", "block"))
        \o read_whitespace("statement", F, None)
        \* Empty statement
        \o Set("statement", {";"}, None, Tr("statement", "right", "pop", None))
        \* Label statement
        \o Set("statement", {":"}, None, Tr("statement_dbcolon_:", "right", "read", None))
        \o Set("statement_dbcolon_:", {":"}, None, Tr("statement_dbcolon_::", "right", "read", None))
        \o read_whitespace("statement_dbcolon_::", F, None)
        \o read_name_or_keyword("statement_dbcolon_::",
               Tr("statement_dbcolon_::NAME", "stay", "read", None), F, None)
        \o read_whitespace("statement_dbcolon_::NAME", F, None)
        \o Set("statement_dbcolon_::NAME", {":"}, None,
               Tr("statement_dbcolon_::NAME:", "right", "read", None))
        \o Set("statement_dbcolon_::NAME:", {":"}, None, Tr("statement", "right", "read", None))
        \* A statement that starts with a '('
        \o Set("statement", {"("}, None, Tr("statement_(", "stay", "read", None))
        \o read_lvalue_or_rvalue("statement_(", FALSE,
               Tr("statement_read_lvalue_hopefully", "stay", "read", None),
               F, F, F, F, FALSE, TRUE)

StatementPunctuationRules ==
    LET F == FAIL_TRANSITION
    IN  Set("block", ALL, None, Tr("statement", "stay", "push", "block"))
        \o read_whitespace("statement", F, None)
        \* Empty statement
        \o Set("statement", {";"}, None, Tr("statement", "right", "read", None))
        \* Label statement
        \o Set("statement", {":"}, None, Tr("statement_dbcolon_:", "right", "read", None))
        \o Set("statement_dbcolon_:", {":"}, None, Tr("statement_dbcolon_::", "right", "read", None))
        \o read_whitespace("statement_dbcolon_::", F, None)
        \o read_name_or_keyword("statement_dbcolon_::",
               Tr("statement_dbcolon_::NAME", "stay", "read", None), F, None)
        \o read_whitespace("statement_dbcolon_::NAME", F, None)
        \o Set("statement_dbcolon_::NAME", {":"}, None,
               Tr("statement_dbcolon_::NAME:", "right", "read", None))
        \o Set("statement_dbcolon_::NAME:", {":"}, None, Tr("statement", "right", "read", None))
        \* A statement that starts with a '('
        \o Set("statement", {"("}, None, Tr("statement_(", "stay", "read", None))
        \o read_lvalue_or_rvalue("statement_(", FALSE,
               Tr("statement_read_lvalue_hopefully", "stay", "read", None),
               F, F, F, F, FALSE, TRUE)

StatementNameRules_call_tag_kept ==
    LET F == FAIL_TRANSITION
    IN  read_name_or_keyword("statement",
            Tr("statement_starting_with_name", "stay", "read", None),
            Tr("statement_starting_with_keyword", "stay", "read", None), None)
        \o read_whitespace("statement_starting_with_name", F, None)
        \* Distinguishing between assignment statements and function calls
        \o Set("statement_starting_with_name", {","}, None,
               Tr("statement_assign_varlist", "right", "read", None))
        \o Set("statement_starting_with_name", {"="}, None,
               Tr("statement_assign_rightside", "right", "read", None))
        \o read_lvalue_or_rvalue("statement_starting_with_name", TRUE,
               Tr("statement_read_lvalue_hopefully", "stay", "read", None),
               F, F,
               Tr("statement_read_lvalue_hopefully_:", "stay", "read", None),
               F, FALSE, TRUE)
        \* what we'd expect if this was an assignment statement
        \o Set("statement_read_lvalue_hopefully", {","}, "lvalue_or_rvalue",
               Tr("statement_read_lvalue", "stay", "pop", None))
        \o Set("statement_read_lvalue_hopefully", {"="}, "lvalue_or_rvalue",
               Tr("statement_read_lvalue", "stay", "pop", None))
        \o Set("statement_read_lvalue", {","}, None,
               Tr("statement_assign_varlist", "right", "pop", None))
        \o Set("statement_read_lvalue", {"="}, None,
               Tr("statement_assign_rightside", "right", "pop", None))
        \* Or maybe this is a function call?
        \o Set("statement_read_lvalue_hopefully", ALL, "rvalue",
               Tr("statement_function_call_maybe", "stay", "pop", None))
        \o Set("statement_function_call_maybe", ALL, "function_call",
               Tr("statement", "stay", "read", None))
        \* the lrvalue ended with a "::"
        \o Set("statement_read_lvalue_hopefully_:", {":"}, "rvalue",
               Tr("statement_function_call_maybe_:", "stay", "pop", None))
        \o Set("statement_function_call_maybe_:", {":"}, "function_call",
               Tr("statement_dbcolon_:", "stay", "pop", None))

StatementNameRules ==
    LET F == FAIL_TRANSITION
    IN  read_name_or_keyword("statement",
            Tr("statement_starting_with_name", "stay", "read", None),
            Tr("statement_starting_with_keyword", "stay", "read", None), None)
        \o read_whitespace("statement_starting_with_name", F, None)
        \* Distinguishing between assignment statements and function calls
        \o Set("statement_starting_with_name", {","}, None,
               Tr("statement_assign_varlist", "right", "read", None))
        \o Set("statement_starting_with_name", {"="}, None,
               Tr("statement_assign_rightside", "right", "read", None))
        \o read_lvalue_or_rvalue("statement_starting_with_name", TRUE,
               Tr("statement_read_lvalue_hopefully", "stay", "read", None),
               F, F,
               Tr("statement_read_lvalue_hopefully_:", "stay", "read", None),
               F, FALSE, TRUE)
        \* what we'd expect if this was an assignment statement
        \o Set("statement_read_lvalue_hopefully", {","}, "lvalue_or_rvalue",
               Tr("statement_read_lvalue", "stay", "pop", None))
        \o Set("statement_read_lvalue_hopefully", {"="}, "lvalue_or_rvalue",
               Tr("statement_read_lvalue", "stay", "pop", None))
        \o Set("statement_read_lvalue", {","}, None,
               Tr("statement_assign_varlist", "right", "pop", None))
        \o Set("statement_read_lvalue", {"="}, None,
               Tr("statement_assign_rightside", "right", "pop", None))
        \* Or maybe this is a function call?
        \o Set("statement_read_lvalue_hopefully", ALL, "rvalue",
               Tr("statement_function_call_maybe", "stay", "pop", None))
        \o Set("statement_function_call_maybe", ALL, "function_call",
               Tr("statement", "stay", "pop", None))
        \* the lrvalue ended with a "::"
        \o Set("statement_read_lvalue_hopefully_:", {":"}, "rvalue",
               Tr("statement_function_call_maybe_:", "stay", "pop", None))
        \o Set("statement_function_call_maybe_:", {":"}, "function_call",
               Tr("statement_dbcolon_:", "stay", "pop", None))

StatementAssignRules ==
    LET F == FAIL_TRANSITION
    IN  Set("statement_assign_varlist", ALL, None,
            Tr("statement_assign_varlist_2", "stay", "read", None))
        \o read_whitespace("statement_assign_varlist", F, None)
        \o read_lvalue_or_rvalue("statement_assign_varlist_2", FALSE,
               Tr("statement_assign_read_another_lvalue_hopefully", "stay", "read", None),
               F, F, F, F, FALSE, FALSE)
        \o Set("statement_assign_read_another_lvalue_hopefully", {","}, "lvalue_or_rvalue",
               Tr("statement_assign_varlist", "right", "pop", None))
        \o Set("statement_assign_read_another_lvalue_hopefully", {"="}, "lvalue_or_rvalue",
               Tr("statement_assign_rightside", "right", "pop", None))
        \* Handle the right side
        \o read_expression_list("statement_assign_rightside",
               Tr("statement", "stay", "read", None),
               F, F, F, F, F, F,
               Tr("statement_starting_with_name", "stay", "read", None),
               Tr("statement_dbcolon_:", "stay", "read", None),
               None)

StatementKeywordRules ==
    LET From(keyword, to) == Set("statement_starting_with_keyword", NOT_LISLALNUM, keyword, to)
    IN  From("if", Tr("statement_if", "stay", "replace", "statement_if"))
        \o From("elseif", Tr("statement_elseif", "stay", "pop", None))
        \o From("else", Tr("statement_else", "stay", "pop", None))
        \o From("while", Tr("statement_while", "stay", "replace", "statement_while"))
        \o From("do", Tr("statement", "stay", "replace", "statement_do"))
        \o From("for", Tr("statement_for", "stay", "replace", "statement_for"))
        \o From("repeat", Tr("statement", "stay", "replace", "statement_repeat"))
        \o From("until", Tr("statement_until", "stay", "pop", None))
        \o From("function", Tr("statement_function", "stay", "replace", "statement_function"))
        \o From("local", Tr("statement_local", "stay", "pop", None))
        \o From("return", Tr("statement_return", "stay", "pop", None))
        \o From("break", Tr("statement", "stay", "pop", None))
        \o From("goto", Tr("statement_goto", "stay", "pop", None))

\* a run of single-byte 'right' transitions spelling one word:
\* (names[k], chars[k]) -> names[k+1]
RECURSIVE Spell(_, _, _)
Spell(names, chars, k) ==
    IF k > Len(chars) THEN << >>
    ELSE Set(names[k], {chars[k]}, None, Tr(names[k + 1], "right", "read", None))
         \o Spell(names, chars, k + 1)

StatementIfWhileRules_else_anywhere ==
    LET F == FAIL_TRANSITION
        IAE == "statement_if_after_expression"
        WAE == "statement_while_after_expression"
    IN  read_expression("statement_if", Tr(IAE, "stay", "read", None),
                        F, F, F, F, F, F, F, F, F, None, FALSE)
        \o Spell(<<IAE, IAE \o "_t", IAE \o "_th", IAE \o "_the", "statement">>,
                 <<"t", "h", "e", "n">>, 1)
        \o read_expression("statement_elseif", Tr(IAE, "stay", "read", None),
                           F, F, F, F, F, F, F, F, F, "statement_if", FALSE)
        \o Set("statement_else", ALL, None, Tr("statement", "stay", "read", None))
        \o read_expression("statement_while", Tr(WAE, "stay", "read", None),
                           F, F, F, F, F, F, F, F, F, None, FALSE)
        \o Spell(<<WAE, WAE \o "_d", "statement">>, <<"d", "o">>, 1)

StatementIfWhileRules ==
    LET F == FAIL_TRANSITION
        IAE == "statement_if_after_expression"
        WAE == "statement_while_after_expression"
    IN  \* If statements
        read_expression("statement_if", Tr(IAE, "stay", "read", None),
                        F, F, F, F, F, F, F, F, F, None, FALSE)
        \o Spell(<<IAE, IAE \o "_t", IAE \o "_th", IAE \o "_the", "statement">>,
                 <<"t", "h", "e", "n">>, 1)
        \o read_expression("statement_elseif", Tr(IAE, "stay", "read", None),
                           F, F, F, F, F, F, F, F, F, "statement_if", FALSE)
        \o Set("statement_else", ALL, "statement_if", Tr("statement", "stay", "read", None))
        \* While statements
        \o read_expression("statement_while", Tr(WAE, "stay", "read", None),
                           F, F, F, F, F, F, F, F, F, None, FALSE)
        \o Spell(<<WAE, WAE \o "_d", "statement">>, <<"d", "o">>, 1)

\* a numerical for-loop whose limit is optional: `do` right after the first
\* expression
StatementForRules_optional_limit ==
    LET F == FAIL_TRANSITION
        S(to) == Tr(to, "stay", "read", None)
        R(to) == Tr(to, "right", "read", None)
        Exp(st, to) == read_expression(st, S(to), F, F, F, F, F, F, F, F, F, None, FALSE)
        NF == "statement_numfor_="
        GF == "statement_genfor_namelist"
    IN  read_whitespace("statement_for", F, None)
        \o read_name_or_keyword("statement_for", S("statement_for_name"), F, None)
        \o read_whitespace("statement_for_name", F, None)
        \o Set("statement_for_name", {"="}, None, R(NF))
        \o Exp(NF, NF \o "_exp")
        \o Set(NF \o "_exp", {"d"}, None, R(NF \o "_exp_,_exp_,_exp_d"))
        \o Set(NF \o "_exp", {","}, None, R(NF \o "_exp_,"))
        \o Exp(NF \o "_exp_,", NF \o "_exp_,_exp")
        \o Set(NF \o "_exp_,_exp", {"d"}, None, R(NF \o "_exp_,_exp_,_exp_d"))
        \o Set(NF \o "_exp_,_exp", {","}, None, R(NF \o "_exp_,_exp_,"))
        \o Exp(NF \o "_exp_,_exp_,", NF \o "_exp_,_exp_,_exp")
        \o Set(NF \o "_exp_,_exp_,_exp", {"d"}, None, R(NF \o "_exp_,_exp_,_exp_d"))
        \o Set(NF \o "_exp_,_exp_,_exp_d", {"o"}, None, R("statement"))
        \o Set("statement_for_name", {","}, None, R(GF \o "_,"))
        \o Set("statement_for_name", {"i"}, None, R(GF \o "_i"))
        \o Set(GF \o "_,", ALL, None, S(GF \o "_,_whitespace"))
        \o read_whitespace(GF \o "_,", F, None)
        \o read_name_list(GF \o "_,_whitespace", S(GF), F, None)
        \o Set(GF, {"i"}, None, R(GF \o "_i"))
        \o Set(GF \o "_i", {"n"}, None, R(GF \o "_in"))
        \o read_expression_list(GF \o "_in", S(GF \o "_in_explist"),
                                F, F, F, F, F, F, F, F, None)
        \o Set(GF \o "_in_explist", {"d"}, None, R(GF \o "_in_explist_d"))
        \o Set(GF \o "_in_explist_d", {"o"}, None, R("statement"))

StatementForRules ==
    LET F == FAIL_TRANSITION
        S(to) == Tr(to, "stay", "read", None)
        R(to) == Tr(to, "right", "read", None)
        Exp(st, to) == read_expression(st, S(to), F, F, F, F, F, F, F, F, F, None, FALSE)
        NF == "statement_numfor_="
        GF == "statement_genfor_namelist"
    IN  read_whitespace("statement_for", F, None)
        \o read_name_or_keyword("statement_for", S("statement_for_name"), F, None)
        \o read_whitespace("statement_for_name", F, None)
        \* Numerical for-loop
        \o Set("statement_for_name", {"="}, None, R(NF))
        \o Exp(NF, NF \o "_exp")
        \o Set(NF \o "_exp", {","}, None, R(NF \o "_exp_,"))
        \o Exp(NF \o "_exp_,", NF \o "_exp_,_exp")
        \o Set(NF \o "_exp_,_exp", {"d"}, None, R(NF \o "_exp_,_exp_,_exp_d"))
        \o Set(NF \o "_exp_,_exp", {","}, None, R(NF \o "_exp_,_exp_,"))
        \o Exp(NF \o "_exp_,_exp_,", NF \o "_exp_,_exp_,_exp")
        \o Set(NF \o "_exp_,_exp_,_exp", {"d"}, None, R(NF \o "_exp_,_exp_,_exp_d"))
        \o Set(NF \o "_exp_,_exp_,_exp_d", {"o"}, None, R("statement"))
        \* Generic for-loop
        \o Set("statement_for_name", {","}, None, R(GF \o "_,"))
        \o Set("statement_for_name", {"i"}, None, R(GF \o "_i"))
        \o Set(GF \o "_,", ALL, None, S(GF \o "_,_whitespace"))
        \o read_whitespace(GF \o "_,", F, None)
        \o read_name_list(GF \o "_,_whitespace", S(GF), F, None)
        \o Set(GF, {"i"}, None, R(GF \o "_i"))
        \o Set(GF \o "_i", {"n"}, None, R(GF \o "_in"))
        \o read_expression_list(GF \o "_in", S(GF \o "_in_explist"),
                                F, F, F, F, F, F, F, F, None)
        \o Set(GF \o "_in_explist", {"d"}, None, R(GF \o "_in_explist_d"))
        \o Set(GF \o "_in_explist_d", {"o"}, None, R("statement"))

StatementRepeatFunctionLocalRules ==
    LET F == FAIL_TRANSITION
        S(to) == Tr(to, "stay", "read", None)
        R(to) == Tr(to, "right", "read", None)
        P(to) == Tr(to, "stay", "pop", None)
    IN  \* Repeat statements
        read_expression("statement_until", P("statement"),
            F, F, F, F, F, F, F,
            P("statement_starting_with_name"),
            P("statement_dbcolon_:"),
            "statement_repeat", FALSE)
        \* Function statements
        \o read_whitespace("statement_function", F, None)
        \o Set("statement_function", IN_LISLALNUM, None, S("func_name_."))
        \o read_whitespace("func_name_.", F, None)
        \o read_name_or_keyword("func_name_.", S("func_name"), F, None)
        \o read_whitespace("func_name", F, None)
        \o Set("func_name", {"."}, None, R("func_name_."))
        \o Set("func_name", {":"}, None, R("func_name_:"))
        \o read_whitespace("func_name_:", F, None)
        \o read_name_or_keyword("func_name_:", S("func_name_:name"), F, None)
        \o read_whitespace("func_name_:name", F, None)
        \o Set("func_name", {"("}, None, S("func_body_start"))
        \o Set("func_name_:name", {"("}, None, S("func_body_start"))
        \o Set("func_body_end", ALL, "statement_function", P("statement"))
        \* Local statements
        \o Set("statement_local", ALL, None, S("statement_local_after_whitespace"))
        \o read_whitespace("statement_local", F, None)
        \o read_name_list("statement_local_after_whitespace",
               S("statement_local_after_name_list"),
               S("statement_local_read_keyword"), None)
        \o Set("statement_local_after_name_list", {"="}, None, R("statement_assign_rightside"))
        \o Set("statement_local_after_name_list", u8_complement({"="}), None, S("statement"))
        \o Set("statement_local_read_keyword", ALL, "function", P("statement_local_function"))
        \o read_whitespace("statement_local_function", F, None)
        \o read_name_or_keyword("statement_local_function",
               S("statement_local_function_read_name"), F, None)
        \o read_whitespace("statement_local_function_read_name", F, None)
        \o Set("statement_local_function_read_name", {"("}, None,
               Tr("func_body_start", "stay", "push", "statement_local_function"))
        \o Set("func_body_end", ALL, "statement_local_function", P("statement"))

StatementReturnRules ==
    LET F == FAIL_TRANSITION
        S(to) == Tr(to, "stay", "read", None)
        R(to) == Tr(to, "right", "read", None)
        RAE == "statement_return_after_expression"
        ReturnFromEnd(kv) ==
            Set("statement_return_end", NOT_LISLALNUM, kv[1], Tr(kv[2], "stay", "pop", None))
    IN  read_expression_list("statement_return",
            S(RAE),
            S("statement_return_end"),
            S("statement_return_elseif"),
            S("statement_return_else"),
            S("statement_return_until"),
            S(RAE \o "_;"),
            F, F, F, None)
        \o read_whitespace(RAE, F, None)
        \o Set(RAE, {";"}, None, R(RAE \o "_;"))
        \o read_whitespace(RAE \o "_;", F, None)
        \o Set(RAE, {"e"}, None, R(RAE \o "_;e"))
        \o Spell(<<RAE \o "_;", RAE \o "_;e", RAE \o "_;el", RAE \o "_;els", RAE \o "_;else">>,
                 <<"e", "l", "s", "e">>, 1)
        \o Set(RAE \o "_;else", NOT_LISLALNUM, None, S("statement_return_else"))
        \o Spell(<<RAE \o "_;else", RAE \o "_;elsei", RAE \o "_;elseif">>, <<"i", "f">>, 1)
        \o Set(RAE \o "_;elseif", NOT_LISLALNUM, None, S("statement_return_elseif"))
        \o Spell(<<RAE \o "_;e", RAE \o "_;en", RAE \o "_;end">>, <<"n", "d">>, 1)
        \o Set(RAE \o "_;end", NOT_LISLALNUM, None, S("statement_return_end"))
        \o Set(RAE, {"u"}, None, R(RAE \o "_;u"))
        \o Spell(<<RAE \o "_;", RAE \o "_;u", RAE \o "_;un", RAE \o "_;unt", RAE \o "_;unti",
                   RAE \o "_;until">>, <<"u", "n", "t", "i", "l">>, 1)
        \o Set(RAE \o "_;until", NOT_LISLALNUM, None, S("statement_return_until"))
        \* Return from "else", "elseif", or "until"
        \o Set("statement_return_else", NOT_LISLALNUM, "statement_if", S("statement_else"))
        \o Set("statement_return_elseif", NOT_LISLALNUM, "statement_if", S("statement_elseif"))
        \o Set("statement_return_until", NOT_LISLALNUM, "statement_repeat", S("statement_until"))
        \* Return from "end"
        \o Flatten([k \in DOMAIN STACK_VALUES_POPPED_BY_END_KEYWORD |-> ReturnFromEnd(STACK_VALUES_POPPED_BY_END_KEYWORD[k])])

StatementGotoEndRules ==
    LET F == FAIL_TRANSITION
        End(kv) == Set("statement_end", NOT_LISLALNUM, kv[1], Tr(kv[2], "stay", "pop", None))
    IN  \* Goto statements
        read_whitespace("statement_goto", F, None)
        \o read_name_or_keyword("statement_goto", Tr("statement", "stay", "read", None), F, None)
        \* "end" keyword
        \o Set("statement_starting_with_keyword", NOT_LISLALNUM, "end",
               Tr("statement_end", "stay", "pop", None))
        \o Flatten([k \in DOMAIN STACK_VALUES_POPPED_BY_END_KEYWORD |-> End(STACK_VALUES_POPPED_BY_END_KEYWORD[k])])

(***************************************************************************)
(* Start (Entrypoint)                                                      *)
(***************************************************************************)
\* an entry point that never leaves 'start'
StartRules_staying ==
    Set("start", ALL, None, Tr("start", "stay", "read", None))

\* a first line that only "\n" ends
StartRules_newline_only ==
    Set("start", ALL, None, Tr("statement", "stay", "read", None))
    \o Set("start", {"#"}, None, Tr("start_#", "right", "read", None))
    \o Set("start_#", ALL, None, Tr("start_#", "right", "read", None))
    \o Set("start_#", {"\n"}, None, Tr("statement", "right", "read", None))

StartRules ==
    Set("start", ALL, None, Tr("statement", "stay", "read", None))
    \o Set("start", {"#"}, None, Tr("start_#", "right", "read", None))
    \o Set("start_#", ALL, None, Tr("start_#", "right", "read", None))
    \o Set("start_#", {"\r", "\n"}, None, Tr("statement", "right", "read", None))

(***************************************************************************)
(* The transitions table: every assignment of _make_transitions, in the    *)
(* order in which the code executes it.  A later rule for the same         *)
(* (state, byte, top) overwrites an earlier one, as a dict assignment      *)
(* does.                                                                   *)
(***************************************************************************)
transitions ==
    LongBracketOpeningRules \o LongBracketClosingRules \o CommentRules
    \o NameRules \o NameListRules \o FunctionBodyRules
    \o ShortStringRules \o ShortStringDecimalEscapeRules
    \o ShortStringUnicodeEscapeRules \o ShortStringEndRules
    \o TableConstructorRules
    \o LRvalueEntryRules \o LRvalueNextPartRules \o LRvalueFunctionArgumentRules
    \o LRvalueBracketRules \o LRvalueNameSuffixRules
    \o ExpressionBinopRules \o ExpressionNameRules \o ExpressionKeywordRules
    \o ExpressionPunctuationRules \o ExpressionNumeralRules
    \o ExpressionStringAndFunctionRules
    \o ExpressionListRules
    \o StatementPunctuationRules \o StatementNameRules \o StatementAssignRules
    \o StatementKeywordRules \o StatementIfWhileRules \o StatementForRules
    \o StatementRepeatFunctionLocalRules \o StatementReturnRules
    \o StatementGotoEndRules
    \o StartRules

\* class Lua_2PDA
initial_state == "start"

\* the rules of a table by their state, each state's in assignment order
by_state(table) == [s \in {table[k].state : k \in 1..Len(table)} |-> SelectSeq(table, LAMBDA r : r.state = s)]

\* the rules of one state, in assignment order
RulesOf == by_state(transitions)

\* the states that have at least one key in the table
KeyStates == DOMAIN RulesOf

\* "transitionsKey not in self.transitions"
NoTransition == << >>

\* the value the last assignment to the key (s, c, top) left in a table
\* given by state, or NoTransition when the key is absent
last_assigned(rules, s, c, top) ==
    IF s \notin DOMAIN rules THEN NoTransition
    ELSE LET rs == rules[s]
             ks == {k \in 1..Len(rs) : rs[k].top = top /\ c \in rs[k].chars}
         IN  IF ks = {} THEN NoTransition
             ELSE rs[CHOOSE k \in ks : \A j \in ks : j <= k].to

\* the table of a TwoPDA subclass that, unlike Lua_2PDA, has transitions
\* whose stack operation can meet an empty stack (o and p pop, r replaces), a
\* transition with an operation that is none of the four (x), a byte with
\* a key for one stack top and no other key (b), and a byte with a key
\* for a stack top next to its key for any top (k)
ToyTransitions ==
    Set("start", {"u"}, None, Tr("start", "right", "push", "A"))
    \o Set("start", {"v"}, None, Tr("start", "right", "push", "B"))
    \o Set("start", {"o"}, None, Tr("start", "right", "pop", None))
    \o Set("start", {"r"}, None, Tr("start", "right", "replace", "B"))
    \o Set("start", {"k"}, None, Tr("start", "right", "read", None))
    \o Set("start", {"k"}, "A", Tr("seen_A", "stay", "read", None))
    \o Set("seen_A", {"k"}, None, Tr("start", "right", "replace", "C"))
    \o Set("start", {"x"}, None, Tr("seen_x", "right", "peek", None))
    \o Set("start", {"p"}, None, Tr("seen_A", "right", "pop", None))
    \o Set("start", {"b"}, "B", Tr("start", "right", "pop", None))

\* self.transitions: the table of the class of the instance, by state
self_transitions == IF family = "toy" THEN by_state(ToyTransitions) ELSE RulesOf

\* self.transitions[(s, c, top)], or NoTransition when the key is absent
transitions_get(s, c, top) == last_assigned(self_transitions, s, c, top)

(***************************************************************************)
(* The engine (pda.py)                                                     *)
(***************************************************************************)
\* repr(s)[2:-1] of a bytes object without quotes: a line break and a
\* backslash are written as two characters each, a printable byte as itself
bytes_repr(s) ==
    Flatten([k \in 1..Len(s) |->
                CASE s[k] = "\n" -> <<"\\", "n">>
                  [] s[k] = "\\" -> <<"\\", "\\">>
                  [] OTHER -> <<s[k]>>])

\* _print_nice_indicator(s, i), with at for i: the number in "[line N]", the line printed
\* after it, and the number of "-" printed before the "^" ('-' * n is empty
\* for a negative n).  Indices are those of Python, from 0; a negative
\* slice bound counts from the end.
print_nice_indicator(s, at) ==
    LET bound(k) == IF k < 0 THEN (IF k + Len(s) < 0 THEN 0 ELSE k + Len(s))
                    ELSE IF k > Len(s) THEN Len(s) ELSE k
        found(start, end) == {k \in bound(start)..(bound(end) - 1) : s[k + 1] = "\n"}
        rfind(start, end) ==
            IF found(start, end) = {} THEN -1
            ELSE CHOOSE k \in found(start, end) : \A j \in found(start, end) : j <= k
        find(start) ==
            IF found(start, Len(s)) = {} THEN -1
            ELSE CHOOSE k \in found(start, Len(s)) : \A j \in found(start, Len(s)) : k <= j
        newline_before == rfind(0, at - 1)
        newline_after == find(at)
        line == bytes_repr(SubSeq(s, bound(newline_before + 1) + 1, bound(newline_after)))
        column == at - (newline_before + 1)
        line_num == Cardinality(found(0, column - 1)) + 1
    IN  [line_num |-> line_num, line |-> line,
         dashes |-> IF column < 0 THEN 0 ELSE column]

\* a key selection that takes the key with None whenever the table has it
select_transition_wildcard_first(rules, s, st, c) ==
    LET wildcard == last_assigned(rules, s, c, None)
    IN  IF wildcard # NoTransition \/ st = << >> THEN wildcard
        ELSE last_assigned(rules, s, c, st[Len(st)])

\* the key selection of consume_character: the key with the stack top if
\* the stack is non-empty and such a key exists, else the key with None
select_transition(rules, s, st, c) ==
    LET specific == IF st # << >> THEN last_assigned(rules, s, c, st[Len(st)])
                    ELSE NoTransition
    IN  IF specific # NoTransition THEN specific ELSE last_assigned(rules, s, c, None)

find_transition(s, st, c) == select_transition(self_transitions, s, st, c)

\* does the stack operation of consume_character complete without raising?
op_succeeds(op, st) ==
    \/ op \in {"push", "read"}
    \/ op \in {"pop", "replace"} /\ st # << >>

\* a stack operation whose replace pushes the value on top of the old top
apply_op_replace_pushes(op, value, st) ==
    CASE op = "push" -> Append(st, value)
      [] op = "pop" -> SubSeq(st, 1, Len(st) - 1)
      [] op = "read" -> st
      [] op = "replace" -> Append(st, value)

\* the stack after the operation
apply_op(op, value, st) ==
    CASE op = "push" -> Append(st, value)
      [] op = "pop" -> SubSeq(st, 1, Len(st) - 1)
      [] op = "read" -> st
      [] op = "replace" -> [st EXCEPT ![Len(st)] = value]

\* does consume_character(c) return (rather than raise) from (s, st)?
completes(t, st) == t # NoTransition /\ op_succeeds(t[3], st)

consumes(s, st, c) == completes(find_transition(s, st, c), st)

\* a loop that moves the cursor after every step
advance_always_right(k, direction) == k + 1

\* "if direction == 'right': i += 1"
advance(k, direction) == IF direction = "right" THEN k + 1 ELSE k

\* parse(inp) run to its end from state s and stack st: how it ends, and
\* where
RECURSIVE parse(_, _, _, _)
RECURSIVE parse_iteration(_, _, _, _, _)
parse(s, st, k, inp) ==
    IF k >= Len(inp)
    THEN [outcome |-> "returned", state |-> s, stack |-> st, i |-> k]
    ELSE parse_iteration(find_transition(s, st, inp[k + 1]), s, st, k, inp)

\* the iteration of parse's loop whose consume_character finds transition t
parse_iteration(t, s, st, k, inp) ==
    IF ~ completes(t, st)
    THEN [outcome |-> "raised", state |-> s, stack |-> st, i |-> k]
    ELSE parse(t[1], apply_op(t[3], t[4], st), advance(k, t[2]), inp)

\* Lua_2PDA().parse(inp): does it return?
accepts(inp) == parse(initial_state, << >>, 0, inp).outcome = "returned"

\* the two counters of the model stop counting at MaxCount
MaxCount == 60

count(n) == IF n < MaxCount THEN n + 1 ELSE n

\* a string of the model as the sequence of its bytes
Bytes(str) == [k \in 1..Len(str) |-> SubSeq(str, k, k)]

(***************************************************************************)
(* The inputs parse is called with                                         *)
(***************************************************************************)
MaxLen == 4

\* bytes that between them start a name, a keyword, a numeral, a comment,
\* a string and a long bracket
Alphabet == {"a", " ", "=", "-", "[", "\""}

\* every byte string over Alphabet of at most MaxLen bytes
ShortInputs == UNION {[1..n -> Alphabet] : n \in 0..MaxLen}

\* ---- the inputs whose runs are followed to their end: the byte strings
\* over Alphabet of at most MaxStayLen bytes, and chunks with calls, whose
\* arguments are left through the longest chains of stay transitions
MaxStayLen == 3

StayInputs ==
    UNION {[1..n -> Alphabet] : n \in 0..MaxStayLen}
        \cup {Bytes(c) : c \in {"f(a) ", "a = f(b) .. c ", "a = {[[x]]-1} "}}

\* str, n times
RECURSIVE Repeat(_, _)
Repeat(str, n) == IF n = 0 THEN "" ELSE Repeat(str, n - 1) \o str

\* the strings of a sequence, one after the other
RECURSIVE Concat(_)
Concat(strs) == IF strs = << >> THEN "" ELSE strs[1] \o Concat(Tail(strs))

\* ---- chunks that the Lua 5.3 grammar derives, and chunks that it does not
ValidChunks ==
    {"a = 1 ", "do end ", "f(a) ", "local a = f(b) ", "while a do end ",
     "a = {[[x]]} ", "a = {[[x]] .. [[y]]} ", "return 1 "}

InvalidChunks ==
    {"do", "do ", "a = \"x", "a = [[x", "f(", "a = = 1 ", "end ", "a ; ",
     "if a then else else end a = 1 "}

ChunkInputs == {Bytes(c) : c \in ValidChunks \cup InvalidChunks}

\* ---- long brackets: a comment or a long string opened at level N, whose
\* body is followed by a closing candidate of level M
MaxLevel == 12

BracketCases == [kind : {"comment", "string"}, N : 0..MaxLevel, M : 0..MaxLevel]

BracketLead(kind) == IF kind = "comment" THEN "--" ELSE "a = "

BracketText(d) ==
    BracketLead(d.kind) \o "[" \o Repeat("=", d.N) \o "[" \o "x"
        \o "]" \o Repeat("=", d.M) \o "]" \o " ?"

\* the cursor just past the closing candidate
CandidateEnd(d) == Len(BracketLead(d.kind)) + d.N + d.M + 5

\* ---- statements that start with a var / prefixexp chain: a head, up to
\* MaxSuffixes suffixes, an optional blank, and what follows the chain
MaxSuffixes == 2

SuffixText ==
    [name |-> ".c", index |-> "[e]", call |-> "(b)", string |-> "\"s\"", table |-> "{}"]

SuffixKinds == DOMAIN SuffixText

ChainTails == {"= 1 ", ", b = 1 ", "; ", "b = 1 "}

\* the chain ends in a Name
EndsInName(d) ==
    IF d.suffixes = << >> THEN d.head = "a"
    ELSE d.suffixes[Len(d.suffixes)] = "name"

ChainCases ==
    {d \in [head : {"a", "(a)"},
            suffixes : UNION {[1..n -> SuffixKinds] : n \in 0..MaxSuffixes},
            gap : {"", " "},
            tail : ChainTails] :
        \* a Name right against the Name that follows would be one longer Name
        ~ (d.gap = "" /\ d.tail = "b = 1 " /\ EndsInName(d))}

ChainText(d) ==
    d.head \o Concat([k \in 1..Len(d.suffixes) |-> SuffixText[d.suffixes[k]]])

\* ---- a chunk, given token by token, with a gap of whitespace and
\* comments put in after one of its tokens
InsertBases ==
    << <<"a", "=", "b", "-", "1", " ">>,
       <<"f", "(", "a", ",", "b", ")", " ">>,
       <<"local", " ", "x", "=", "{", "1", "}", " ">>,
       <<"if", " ", "a", " ", "then", " ", "end", " ">>,
       <<"a", "=", "-", "b", " ">>,
       <<"a", ".", "b", ":", "c", "(", ")", " ">>,
       <<"a", "=", "=", "1", " ">>,
       <<"do", " ", " end">> >>

GapLevels == {0, 1, 9, 10, 11}

InsertGaps ==
    [kind : {"blank", "newline", "line", "line_x", "line_bracket"}, level : {0}]
        \cup [kind : {"long", "decoy"}, level : GapLevels]
        \cup [kind : {"line_open"}, level : {0, 1, 2, 10}]

\* --[=*[ body ]=*] of level n
LongComment(n, body) ==
    "--[" \o Repeat("=", n) \o "[" \o body \o "]" \o Repeat("=", n) \o "]"

GapText(g) ==
    CASE g.kind = "blank" -> " "
      [] g.kind = "newline" -> "\n\t"
      [] g.kind = "line" -> "--\n"
      [] g.kind = "line_x" -> "--x\n"
      [] g.kind = "line_bracket" -> "--[=x\n"
      \* a long bracket's opening that the line break cuts short
      [] g.kind = "line_open" -> "--[" \o Repeat("=", g.level) \o "\n"
      [] g.kind = "long" -> LongComment(g.level, "c")
      \* the body holds a closing bracket one level up
      [] g.kind = "decoy" ->
            LongComment(g.level, " ]" \o Repeat("=", g.level + 1) \o "] ")

MaxTokens == 8

InsertCases ==
    {d \in [base : 1..Len(InsertBases), pos : 1..MaxTokens, gap : InsertGaps] :
        d.pos < Len(InsertBases[d.base])}

BaseText(d) == Concat(InsertBases[d.base])

InsertText(d) ==
    LET tokens == InsertBases[d.base]
    IN  Concat(SubSeq(tokens, 1, d.pos)) \o GapText(d.gap)
            \o Concat(SubSeq(tokens, d.pos + 1, Len(tokens)))

\* ---- one parse after another on the same instance
MaxCalls == 2

ReuseInputs == {Bytes(c) : c \in {"do ", "end ", "a = 1 ", "a = \"", "x\" ", "f( ", ") "}}

\* ---- a chain that ends in ":" Name, as a statement and as the right side
\* of an assignment, with what follows the Name
MethodArguments == {"()", "(c)", "\"s\"", "[[s]]", "{}"}

MethodOthers == {"= 1 ", ", c = 1 ", "; ", ".c() ", ":c() ", "[e]() ", "+ 1 "}

MethodTails == {"; ", "= 1 ", ", c = 1 ", ".c = 1 "}

MethodCases ==
    {d \in [context : {"statement", "expression"},
            gap : {"", " ", "--[[x]]"},
            follower : MethodArguments \cup MethodOthers,
            tail : MethodTails] :
        /\ d.follower \in MethodOthers => d.tail = "; "
        /\ d.context = "expression" => d.tail = "; "}

MethodLead(d) == IF d.context = "statement" THEN "a:b" ELSE "c = a:b"

MethodText(d) ==
    MethodLead(d) \o d.gap \o d.follower
        \o (IF d.follower \in MethodArguments THEN d.tail ELSE "")

\* ---- a return statement in each kind of block, with what follows it
ReturnOpeners ==
    [top |-> "", do |-> "do ", while |-> "while a do ", if |-> "if a then ",
     for |-> "for i = 1, 2 do ", function |-> "function f() ", repeat |-> "repeat "]

ReturnCases ==
    [block : DOMAIN ReturnOpeners,
     explist : {"", " nil", " 1, 2", " 1,"},
     semicolon : {"", ";"},
     continuation : {"", " end", " else", " elseif", " until", " a = 1", " return"},
     trail : {"", " "}]

ReturnText(d) ==
    ReturnOpeners[d.block] \o "return" \o d.explist \o d.semicolon
        \o d.continuation \o d.trail

\* ---- blocks with their closing keyword, and with an "end" too many
EndBalanced ==
    {"do end", "while nil do end", "if nil then end", "for i = 1, 2 do end",
     "function f() end", "repeat ; until false", "do do end end"}

EndUnbalanced ==
    {"do end end", "while nil do end end", "if nil then end end",
     "repeat ; until false end", "end", "repeat end", "function f() end end"}

EndCases == [text : EndBalanced \cup EndUnbalanced, trail : {"", " ", ";"}]

\* ---- an assignment whose right side is a numeral, well formed or not
NumeralsWellFormed == {"a = 0xFFp-2", "a = 1e5", "a = .5", "a = 3.", "a = 0x.1", "a = 12"}

NumeralsMalformed == {"a = 0x", "a = 12e", "a = .", "a = 12e+", "a = 0xp1"}

NumeralCases == [text : NumeralsWellFormed \cup NumeralsMalformed, trail : {"", " ", ";"}]

\* ---- a word after the complete operand of a local declaration
WordOperators == {"and", "or"}

WordNames == {"a", "an", "andz", "az", "o", "orz", "oz"}

WordCases ==
    [word : WordOperators \cup WordNames, gap : {" ", "--[[x]]"}, rest : {"", " z", "(nil,nil)", " ( nil , nil ) ; "}]

WordText(d) == "local a = 5" \o d.gap \o d.word \o d.rest

\* ---- a short string that holds one decimal escape: a backslash, the
\* number n written with width digits, and possibly one more digit
EscapeCases ==
    {d \in [width : 1..3, n : 0..999, extra : {"", "7"}] : d.n < 10 ^ d.width}

EscapeDigits(d) == Repeat("0", d.width - Len(ToString(d.n))) \o ToString(d.n)

EscapeText(d) == "a = \"\\" \o EscapeDigits(d) \o d.extra \o "\" "

\* ---- a short string that holds one \u{...} escape: leading zeros, a first
\* nonzero digit, further digits, and possibly a byte that is no hex digit
MaxZeros == 2

MaxMoreDigits == 8

UnicodeCases ==
    {d \in [zeros : 0..MaxZeros,
            first : {"", "1", "7", "8", "F", "a"},
            more : 0..MaxMoreDigits,
            fill : {"0", "f"},
            junk : {"", "g", " "}] :
        d.first = "" => (d.more = 0 /\ d.fill = "0")}

UnicodeText(d) ==
    "a = \"\\u{" \o Repeat("0", d.zeros) \o d.first \o Repeat(d.fill, d.more)
        \o d.junk \o "}\" "

\* ---- a short string whose content is a sequence of pieces: the quote
\* that opened it (Q), the other quote (O), an escaped quote, line breaks,
\* raw, escaped, and after \z
MaxPieces == 3

StringPieces == {"Q", "O", "\\Q", "\n", "\r", "\\\n", "\\z"}

StringCases ==
    [quote : {"\"", "'"}, pieces : UNION {[1..n -> StringPieces] : n \in 0..MaxPieces}]

PieceText(d, k) ==
    LET other == IF d.quote = "'" THEN "\"" ELSE "'"
    IN  CASE d.pieces[k] = "Q" -> d.quote
          [] d.pieces[k] = "O" -> other
          [] d.pieces[k] = "\\Q" -> "\\" \o d.quote
          [] OTHER -> d.pieces[k]

\* the text of the first n pieces
PiecesText(d, n) == Concat([k \in 1..n |-> PieceText(d, k)])

StringText(d) == "a = " \o d.quote \o PiecesText(d, Len(d.pieces)) \o d.quote \o " "

\* ---- numerical for-loops: a loop variable, `=`, a number of expressions
\* separated by commas, and the rest of the statement
MaxExps == 4

ForCases ==
    [variable : {"a", "i", "end", "nil", "a, b"},
     exps : 1..MaxExps,
     exp : {"1", "d", "-b", "f(c)"},
     rest : {" do end", " do end ", " do a = 1 end ", " end "}]

RECURSIVE ForExpList(_, _)
ForExpList(d, n) == IF n = 1 THEN d.exp ELSE ForExpList(d, n - 1) \o ", " \o d.exp

ForText(d) == "for " \o d.variable \o " = " \o ForExpList(d, d.exps) \o d.rest

\* ---- table constructors whose first field is a key, alone or followed by
\* `=` and a value or by `=` and nothing
FieldCases ==
    [key : {"five", "x", "7", "nil", "a.b", "-x", "- x", "-23", "(x)", "\"x\"", "f()"},
     value : {"", " = 5", "= -1", " ="},
     rest : {" }", " } ", ", y = 2 } "}]

FieldText(d) == "a = { " \o d.key \o d.value \o d.rest

\* ---- function bodies: a function statement, a local function or a
\* function expression whose parameter list is a sequence of items (an
\* empty item leaves two separators next to each other, or one at an end)
\* with the same separator between any two of them, closed by ")" or not;
\* the longest lists in function statements only
MaxParams == 3

ParamCases ==
    {d \in [head : {"function f", "local function f", "a = function "},
            items : UNION {[1..n -> {"a", "nil", "...", "..", "", "a..."}] : n \in 0..MaxParams},
            sep : {",", " "},
            close : {")", ""}] :
        /\ Len(d.items) <= 1 => (d.sep = "," /\ (d.close = "" => d.items # <<"">>))
        /\ Len(d.items) = MaxParams => d.head = "function f"}

\* the first n items of d, with the separator between them
RECURSIVE ParamList(_, _)
ParamList(d, n) ==
    IF n = 0 THEN ""
    ELSE ParamList(d, n - 1) \o (IF n > 1 THEN d.sep ELSE "") \o d.items[n]

ParamText(d) == d.head \o "(" \o ParamList(d, Len(d.items)) \o d.close \o " end "

\* ---- inputs with "#" lines: every byte string of at most MaxLen bytes
\* over "#", the two line breaks, a name, a quote and a byte that is no
\* Lua at all, and the two inputs of test_bang
BangInputs ==
    UNION {[1..n -> {"#", "\n", "\r", "a", "\"", "<255>"}] : n \in 0..MaxLen}
        \cup {Bytes(c) : c \in {"#shebang line\ndo --\n end",
                                "#shebang line\noh no invalid syntax"}}

\* ---- the inputs of the subclass with ToyTransitions: every byte string
\* of at most MaxLen bytes over the bytes its table has keys for
ToyInputs == UNION {[1..n -> {"u", "v", "o", "p", "r", "k", "x", "b"}] : n \in 0..MaxLen}

\* ---- a word and the byte after it, where a statement, the label of a
\* goto, the variable of a for loop or an expression starts: the keywords,
\* their proper prefixes, the keywords with one more byte, and other names
NameCallers ==
    {[prefix |-> "", start |-> "statement", stack |-> << >>,
      name_to |-> "statement_starting_with_name",
      keyword_to |-> "statement_starting_with_keyword"],
     [prefix |-> "goto ", start |-> "statement_goto", stack |-> << >>,
      name_to |-> "statement", keyword_to |-> FAIL_TRANSITION[1]],
     [prefix |-> "for ", start |-> "statement_for", stack |-> <<"statement_for">>,
      name_to |-> "statement_for_name", keyword_to |-> FAIL_TRANSITION[1]],
     [prefix |-> "a = ", start |-> "expression",
      stack |-> <<"expression_list__statement_assign_rightside",
                  "expression__expression_list_start", "beginning">>,
      name_to |-> "expression_starting_with_name",
      keyword_to |-> "expression_starting_with_keyword"]}

NameWords ==
    {KEYWORDS[k].name : k \in DOMAIN KEYWORDS}
        \cup UNION {{Prefix(KEYWORDS[k].chars, n) : n \in 1..Len(KEYWORDS[k].chars)} : k \in DOMAIN KEYWORDS}
        \cup {KEYWORDS[k].name \o more : k \in DOMAIN KEYWORDS, more \in {"x", "1", "_", "D"}}
        \cup {"x", "_", "A1", "End", "NIL", "abc123", "_abc_123_"}

NameCases == [caller : NameCallers, word : NameWords, term : {" ", "(", "=", "\n", B(255)}]

\* ---- long brackets with two closing candidates: a comment or a long
\* string opened at level N, a candidate of level M that is cut short by
\* other bytes or goes up to its second "]", and from the last "]" on a
\* candidate of level K
CloserCases ==
    [kind : {"comment", "string"}, N : {0, 1, 4, 9, 10, 11}, M : {0, 1, 4, 9, 10, 11},
     K : {0, 1, 4, 9, 10, 11}, cut : {"", "not yet"}]

CloserText(d) ==
    BracketLead(d.kind) \o "[" \o Repeat("=", d.N) \o "[" \o " x "
        \o "]" \o Repeat("=", d.M) \o d.cut \o "]" \o Repeat("=", d.K) \o "]" \o " ?"

\* the clauses of the if and repeat statements, after every opening of a
\* block
ClauseOpenings ==
    {"", "do ", "while x do ", "repeat ", "repeat ; ", "repeat ; until nil ",
     "if x then ", "if x then else ", "if x then elseif y then ",
     "if x then elseif y then else ", "for i = 1, 2 do ", "function f() ",
     "if x then repeat ", "repeat if x then "}

ClauseCases ==
    [opening : ClauseOpenings,
     clause : {"else ", "elseif y then ", "until x ", "until nil "},
     closing : {"", "end ", "until nil ", "end end "}]

ClauseText(d) == d.opening \o d.clause \o d.closing \o " "

\* the keyword that closes the header of an if, while or for statement,
\* and what follows it
Headers ==
    {[text |-> "if x then", tail |-> "foo() end"],
     [text |-> "if x then elseif y then", tail |-> "foo() end"],
     [text |-> "while x do", tail |-> "foo() end"],
     [text |-> "for a in", tail |-> "b do end"],
     [text |-> "for a in b do", tail |-> "foo() end"],
     [text |-> "for i = 1, 2 do", tail |-> "foo() end"],
     [text |-> "for i = 1, 2, 3 do", tail |-> "foo() end"]}

HeaderCases == [header : Headers, glue : {"", " ", "\n", "_", "x", "1"}]

HeaderText(d) == d.header.text \o d.glue \o d.header.tail \o " "

\* an expression slot that holds a unary operator and no operand
OperandSlots ==
    {[before |-> "f(", after |-> ")"],
     [before |-> "f(1, ", after |-> ")"],
     [before |-> "return ", after |-> " ;"],
     [before |-> "return ", after |-> ";"],
     [before |-> "do return ", after |-> " end"],
     [before |-> "a = (", after |-> ")"],
     [before |-> "a = {", after |-> "}"],
     [before |-> "a[", after |-> "] = 1"]}

OperandCases == [slot : OperandSlots, op : {"-", "- ", " -", "-\n", "#", "not", "~"}]

OperandText(d) == d.slot.before \o d.op \o d.slot.after \o " "

\* a hexadecimal numeral: the digits before and after the point, and the
\* exponent
HexCases ==
    [lead : {"0x", "0X"}, before : {"", "5", "A", "ff"}, point : {"", "."},
     after : {"", "5", "c"}, exponent : {"", "p1", "P-2"}]

HexText(d) == "a = " \o d.lead \o d.before \o d.point \o d.after \o d.exponent \o " ;"

\* ---- inputs of several lines that fail at a byte that is no Lua: empty
\* statements, line breaks, and the bytes "!" and "\"
MaxLineLen == 5

LineInputs == UNION {[1..n -> {";", "\n", "!", "\\"}] : n \in 1..MaxLineLen}

\* the test cases of a family, and the bytes parse is called with for one
Cases(f) ==
    CASE f = "short" -> ShortInputs
      [] f = "chunks" -> ChunkInputs
      [] f = "brackets" -> BracketCases
      [] f = "chains" -> ChainCases
      [] f = "reuse" -> ReuseInputs
      [] f = "stays" -> StayInputs
      [] f = "insert" -> InsertCases
      [] f = "methods" -> MethodCases
      [] f = "returns" -> ReturnCases
      [] f = "ends" -> EndCases
      [] f = "numerals" -> NumeralCases
      [] f = "words" -> WordCases
      [] f = "escapes" -> EscapeCases
      [] f = "unicodes" -> UnicodeCases
      [] f = "strings" -> StringCases
      [] f = "fors" -> ForCases
      [] f = "fields" -> FieldCases
      [] f = "params" -> ParamCases
      [] f = "bangs" -> BangInputs
      [] f = "toy" -> ToyInputs
      [] f = "names" -> NameCases
      [] f = "closers" -> CloserCases
      [] f = "clauses" -> ClauseCases
      [] f = "headers" -> HeaderCases
      [] f = "operands" -> OperandCases
      [] f = "hexes" -> HexCases
      [] f = "lines" -> LineInputs

Render(f, d) ==
    CASE f = "brackets" -> Bytes(BracketText(d))
      [] f = "chains" -> Bytes(ChainText(d) \o d.gap \o d.tail)
      [] f = "insert" -> Bytes(InsertText(d))
      [] f = "methods" -> Bytes(MethodText(d))
      [] f = "returns" -> Bytes(ReturnText(d))
      [] f = "ends" -> Bytes(d.text \o d.trail)
      [] f = "numerals" -> Bytes(d.text \o d.trail)
      [] f = "words" -> Bytes(WordText(d))
      [] f = "escapes" -> Bytes(EscapeText(d))
      [] f = "unicodes" -> Bytes(UnicodeText(d))
      [] f = "strings" -> Bytes(StringText(d))
      [] f = "fors" -> Bytes(ForText(d))
      [] f = "fields" -> Bytes(FieldText(d))
      [] f = "params" -> Bytes(ParamText(d))
      [] f = "names" -> Bytes(d.caller.prefix \o d.word) \o <<d.term>>
      [] f = "closers" -> Bytes(CloserText(d))
      [] f = "clauses" -> Bytes(ClauseText(d))
      [] f = "headers" -> Bytes(HeaderText(d))
      [] f = "operands" -> Bytes(OperandText(d))
      [] f = "hexes" -> Bytes(HexText(d))
      [] OTHER -> d

(***************************************************************************)
(* The state machine                                                       *)
(***************************************************************************)
\* TwoPDA.__init__, before any parse call
InitOf(f) ==
    /\ family = f
    /\ case = None
    /\ state = initial_state
    /\ stack = << >>
    /\ input = << >>
    /\ i = 0
    /\ pc = "idle"
    /\ err = -1
    /\ calls = 0
    /\ steps = 0
    /\ stays = 0

Init == InitOf("short")

\* parse_lua(s): Lua_2PDA().parse(s), a new instance for every input
parse_lua ==
    /\ pc = "idle"
    /\ \E d \in Cases(family) : input' = Render(family, d) /\ case' = d
    /\ state' = initial_state
    /\ stack' = << >>
    /\ i' = 0
    /\ pc' = "running"
    /\ err' = -1
    /\ calls' = calls + 1
    /\ steps' = 0
    /\ stays' = 0
    /\ UNCHANGED family

\* parse(s) called on the instance as the calls before it left it
parse_call ==
    /\ pc # "running"
    /\ calls < MaxCalls
    /\ \E d \in Cases(family) : input' = Render(family, d) /\ case' = d
    /\ i' = 0
    /\ pc' = "running"
    /\ err' = -1
    /\ calls' = calls + 1
    /\ steps' = 0
    /\ stays' = 0
    /\ UNCHANGED <<state, stack, family>>

\* a consume_character that takes any key that matches, the one with the
\* stack top or the one with None
consume_character_any_key ==
    /\ pc = "running"
    /\ i < Len(input)
    /\ \E top \in {None} \cup (IF stack = << >> THEN {} ELSE {stack[Len(stack)]}) :
       \E t \in {transitions_get(state, input[i + 1], top)} :
           /\ completes(t, stack)
           /\ stack' = apply_op(t[3], t[4], stack)
           /\ state' = t[1]
           /\ i' = advance(i, t[2])
           /\ stays' = IF t[2] = "stay" THEN count(stays) ELSE 0
    /\ steps' = count(steps)
    /\ UNCHANGED <<input, pc, err, calls, family, case>>

\* one iteration of parse's loop in which consume_character returns
consume_character ==
    /\ pc = "running"
    /\ i < Len(input)
    /\ \E t \in {find_transition(state, stack, input[i + 1])} :
           /\ completes(t, stack)
           /\ stack' = apply_op(t[3], t[4], stack)
           /\ state' = t[1]
           /\ i' = advance(i, t[2])
           /\ stays' = IF t[2] = "stay" THEN count(stays) ELSE 0
    /\ steps' = count(steps)
    /\ UNCHANGED <<input, pc, err, calls, family, case>>

\* a parse that skips the byte it cannot consume and reports the next index
parse_raise_after_skipping ==
    /\ pc = "running"
    /\ i < Len(input)
    /\ ~ consumes(state, stack, input[i + 1])
    /\ pc' = "raised"
    /\ i' = i + 1
    /\ err' = i + 1
    /\ UNCHANGED <<state, stack, input, calls, steps, stays, family, case>>

\* a consume_character that assigns the state of the transition it found
\* before it applies the stack operation
parse_raise_state_assigned ==
    /\ pc = "running"
    /\ i < Len(input)
    /\ ~ consumes(state, stack, input[i + 1])
    /\ pc' = "raised"
    /\ err' = i
    /\ state' = IF find_transition(state, stack, input[i + 1]) = NoTransition THEN state
                ELSE find_transition(state, stack, input[i + 1])[1]
    /\ UNCHANGED <<stack, input, i, calls, steps, stays, family, case>>

\* one iteration of parse's loop in which consume_character raises: parse
\* raises the RuntimeError that names index i
parse_raise ==
    /\ pc = "running"
    /\ i < Len(input)
    /\ ~ consumes(state, stack, input[i + 1])
    /\ pc' = "raised"
    /\ err' = i
    /\ UNCHANGED <<state, stack, input, i, calls, steps, stays, family, case>>

\* a parse that, at the end of the input, asks for an empty stack
parse_return_empty_stack_only ==
    /\ pc = "running"
    /\ i >= Len(input)
    /\ pc' = IF stack = << >> THEN "returned" ELSE "raised"
    /\ err' = IF stack = << >> THEN err ELSE i
    /\ UNCHANGED <<state, stack, input, i, calls, steps, stays, family, case>>

\* the loop condition i < len(input) fails: parse returns
parse_return ==
    /\ pc = "running"
    /\ i >= Len(input)
    /\ pc' = "returned"
    /\ UNCHANGED <<state, stack, input, i, err, calls, steps, stays, family, case>>

Next == parse_lua \/ consume_character \/ parse_raise \/ parse_return

Spec == Init /\ [][Next]_vars

\* parse's loop runs on: an enabled iteration is eventually taken
InitStays == InitOf("stays")

SpecFair == InitStays /\ [][Next]_vars /\ WF_vars(Next)

InitChunks == InitOf("chunks")

SpecChunks == InitChunks /\ [][Next]_vars

InitInsert == InitOf("insert")

SpecInsert == InitInsert /\ [][Next]_vars

InitBrackets == InitOf("brackets")

SpecBrackets == InitBrackets /\ [][Next]_vars

InitChains == InitOf("chains")

SpecChains == InitChains /\ [][Next]_vars

\* parse called again and again on one instance
InitReuse == InitOf("reuse")

NextReuse == parse_call \/ consume_character \/ parse_raise \/ parse_return

SpecReuse == InitReuse /\ [][NextReuse]_vars

\* the families that exercise one construct of the grammar each
SyntaxFamilies == {"methods", "returns", "ends", "numerals", "words", "escapes", "unicodes", "strings", "fors", "fields"}

InitSyntax == \E f \in SyntaxFamilies : InitOf(f)

SpecSyntax == InitSyntax /\ [][Next]_vars

InitParams == InitOf("params")

SpecParams == InitParams /\ [][Next]_vars

InitBangs == InitOf("bangs")

SpecBangs == InitBangs /\ [][Next]_vars

\* the engine with the table of Lua_2PDA and with ToyTransitions
InitEngine == InitOf("toy") \/ InitOf("stays")

SpecEngine == InitEngine /\ [][Next]_vars

\* chunks in which the readers of the grammar are entered from inside one
\* another
InitNests == \E f \in {"chunks", "fields", "params", "fors", "methods"} : InitOf(f)

SpecNests == InitNests /\ [][Next]_vars

InitNames == InitOf("names")

SpecNames == InitNames /\ [][Next]_vars

InitClosers == InitOf("closers")

SpecClosers == InitClosers /\ [][Next]_vars

InitClauses == InitOf("clauses")

SpecClauses == InitClauses /\ [][Next]_vars

InitHeaders == InitOf("headers")

SpecHeaders == InitHeaders /\ [][Next]_vars

InitOperands == InitOf("operands")

SpecOperands == InitOperands /\ [][Next]_vars

InitHexes == InitOf("hexes")

SpecHexes == InitHexes /\ [][Next]_vars

InitBlocks ==
    \E f \in {"chunks", "clauses", "headers", "operands", "ends", "returns", "fors", "params", "methods"} : InitOf(f)

SpecBlocks == InitBlocks /\ [][Next]_vars

InitLines == InitOf("lines")

SpecLines == InitLines /\ [][Next]_vars

(***************************************************************************)
(* C2                                                                      *)
(***************************************************************************)
\* the iteration at the cursor cannot be completed: no key matches, or the
\* stack operation of the transition found raises
step_fails == ~ completes(find_transition(state, stack, input[i + 1]), stack)

\* C2: parse returns without error exactly when no step of the run failed:
\* a returned parse has its cursor at len(input) and has reported no index, a
\* raised parse stands on a byte whose step fails; once the cursor is at
\* len(input) the only thing parse can do is return, whatever the state and
\* the stack, and before that it cannot return; and parse of the empty
\* input returns without having taken a step.
C2_ReturnsIffNoStepFails ==
    /\ pc = "returned" => (i = Len(input) /\ err = -1)
    /\ pc = "raised" => (i < Len(input) /\ step_fails)
    /\ (pc = "running" /\ i >= Len(input)) =>
           (ENABLED parse_return /\ ~ ENABLED parse_raise /\ ~ ENABLED consume_character)
    /\ (pc = "running" /\ i < Len(input)) => ~ ENABLED parse_return
    /\ (pc # "idle" /\ input = << >>) => (steps = 0 /\ pc # "raised")

\* a parse has returned in the middle of a construct: not in 'start' or
\* 'statement', and with symbols left on the stack
C2_ReturnedInsideConstruct ==
    /\ pc = "returned"
    /\ steps > 0
    /\ state \notin {"start", "statement"}
    /\ stack # << >>

(***************************************************************************)
(* C5                                                                      *)
(***************************************************************************)
\* C5: when the step at cursor i fails, parse raises the error that reports
\* exactly i, the state, the stack and the cursor stay as they were, and
\* nothing follows the failure: no byte after index i is consumed.
C5_FailureReportsCursorAndIsTerminal ==
    [][ /\ (pc = "running" /\ i < Len(input) /\ step_fails) =>
               /\ pc' = "raised"
               /\ err' = i
               /\ <<state, stack, i>>' = <<state, stack, i>>
        /\ pc = "raised" => FALSE
        /\ pc' = "raised" => (err' = i /\ i' < Len(input)) ]_vars

\* a parse has raised in the middle of its input, bytes consumed before the
\* index it reports and bytes left after it
C5_RaisedMidInput ==
    /\ pc = "raised"
    /\ 0 < err
    /\ err + 1 < Len(input)
    /\ err = i

(***************************************************************************)
(* C7                                                                      *)
(***************************************************************************)
\* C7: a run of consecutive 'stay' transitions always ends, in a 'right'
\* transition, a failure or the return, and every parse call ends.
C7_StayRunsEndAndParseTerminates ==
    /\ []<>(stays = 0 \/ pc # "running")
    /\ <>(pc \in {"returned", "raised"})

\* a parse is ten 'stay' transitions into a run of them
C7_LongStayRun == pc = "running" /\ stays >= 10

finished == pc \in {"returned", "raised"}

InvalidInputs == {Bytes(c) : c \in InvalidChunks}

ValidInputs == {Bytes(c) : c \in ValidChunks}

\* C1: every input that is not a syntactically valid Lua 5.3 chunk is
\* rejected: its parse raises, also when the input ends inside an open
\* construct.
C1_InvalidChunksAreRejected ==
    (finished /\ input \in InvalidInputs) => pc = "raised"

\* C3: every input that is a syntactically valid Lua 5.3 chunk is accepted:
\* its parse returns.
C3_ValidChunksAreAccepted ==
    (finished /\ input \in ValidInputs) => pc = "returned"

\* the gap of d starts with a comment right after a "-" token
CommentAfterMinus(d) ==
    /\ InsertBases[d.base][d.pos] = "-"
    /\ d.gap.kind \notin {"blank", "newline"}

\* the gap of d is a multi-line comment of level 10 or more
LevelTenComment(d) == d.gap.kind \in {"long", "decoy"} /\ d.gap.level >= 10

\* the parse of a chunk with a gap is over, and the chunk without the gap
\* is one that parse accepts
GapInAcceptedChunk ==
    /\ family = "insert"
    /\ finished
    /\ accepts(Bytes(BaseText(case)))

\* C4 as stated: a chunk that parse accepts is still accepted with any
\* sequence of whitespace, "--" line comments and "--[=*[ ]=*]" comments
\* put in between two adjacent tokens.
C4_GapsKeepAcceptance ==
    GapInAcceptedChunk => pc = "returned"

\* C4, amended: a chunk that parse accepts is still accepted with a gap of
\* whitespace and comments put in between two adjacent tokens, provided
\* the gap does not start with a comment right after a "-" token and its
\* multi-line comments are of a level below 10.
C4_GapsKeepAcceptanceBelowTen ==
    (GapInAcceptedChunk /\ ~ CommentAfterMinus(case) /\ ~ LevelTenComment(case))
        => pc = "returned"

C4_AcceptedWithLevelNineComment ==
    /\ GapInAcceptedChunk
    /\ case.gap = [kind |-> "decoy", level |-> 9]
    /\ case.base = 2
    /\ pc = "returned"

\* C6: every parse starts from the start state, the empty stack and cursor 0,
\* and its outcome is that of a parse of the same input on a new instance,
\* whatever the instance parsed before.
C6_EveryParseStartsAfresh ==
    /\ (pc = "running" /\ steps = 0) =>
           (state = initial_state /\ stack = << >> /\ i = 0)
    /\ finished => ((pc = "returned") <=> accepts(input))

\* the state is one of the long bracket's own
InLongBracket(s) == Len(s) >= Len(MCOLS) /\ SubSeq(s, 1, Len(MCOLS)) = MCOLS

\* the parse of a bracket is just past the closing candidate
AtCandidateEnd ==
    /\ family = "brackets"
    /\ pc = "running"
    /\ i = CandidateEnd(case)

\* the candidate closed the bracket: the parse is out of it just past the
\* candidate, and goes on to meet the "?" that follows
ClosedIff(closes) ==
    /\ AtCandidateEnd => (InLongBracket(state) <=> ~ closes)
    /\ (family = "brackets" /\ finished) => ((pc = "raised") <=> closes)

IsBracketCase == family = "brackets" /\ pc # "idle"

Min(a, b) == IF a < b THEN a ELSE b

\* C8 as stated: a long bracket opened at level N is closed by a candidate
\* of level M exactly when M = N, for every level N.
C8_ClosedByItsOwnLevelOnly ==
    IsBracketCase => ClosedIff(case.M = case.N)

\* C8, amended: a long bracket opened at a level N below 10 is closed by a
\* candidate of level M exactly when M = N; one opened at level 10 or above
\* is closed by every candidate of level 10 or above, and by no other.
C8_ClosedByItsOwnLevelBelowTen ==
    IsBracketCase =>
        /\ case.N < 10 => ClosedIff(case.M = case.N)
        /\ case.N >= 10 => ClosedIff(case.M >= 10)

C8_NineNotClosedByTen ==
    /\ AtCandidateEnd
    /\ case.N = 9
    /\ case.M = 10
    /\ InLongBracket(state)

\* C9: the "=" of an opening and of a closing candidate are counted only
\* up to 10, and the counts are what is compared: an opening of level 10 is
\* closed by a candidate with 11 "=".
C9_LevelsAreCountedUpToTen ==
    IsBracketCase => ClosedIff(Min(case.N, 10) = Min(case.M, 10))

C9_TenClosedByEleven ==
    /\ AtCandidateEnd
    /\ case.N = 10
    /\ case.M = 11
    /\ ~ InLongBracket(state)

\* what the chain of d is: a var, a function call, or neither
TagOf(d) ==
    IF d.suffixes = << >> THEN (IF d.head = "a" THEN "lvalue" ELSE "rvalue")
    ELSE IF d.suffixes[Len(d.suffixes)] \in {"name", "index"} THEN "lvalue"
    ELSE "function_call"

\* the parse of a statement is at the byte that follows its chain
AtDispatch ==
    /\ family = "chains"
    /\ pc = "running"
    /\ state = "statement_read_lvalue_hopefully"
    /\ i = Len(ChainText(case)) + Len(case.gap)

\* C10: at the end of a var / prefixexp chain that starts a statement, the
\* stack carries lvalue_or_rvalue exactly when the chain is a var and
\* function_call exactly when it is a call; when the next byte is "," or
\* "=" the statement is accepted only with the first tag, and otherwise only
\* with the second.
C10_StatementDispatchesOnTag ==
    /\ AtDispatch =>
          /\ Len(stack) >= 2
          /\ (stack[Len(stack)] = "lvalue_or_rvalue") <=> (TagOf(case) = "lvalue")
          /\ (stack[Len(stack) - 1] = "function_call") <=> (TagOf(case) = "function_call")
    /\ (family = "chains" /\ finished) =>
          ((pc = "returned") <=>
              IF case.tail \in {"= 1 ", ", b = 1 "} THEN TagOf(case) = "lvalue"
              ELSE TagOf(case) = "function_call")

C10_CallRejectedAsAssignmentTarget ==
    /\ family = "chains"
    /\ input = Bytes("a.c(b) = 1 ")
    /\ pc = "raised"
    /\ err = 7
    /\ state = "statement"
    /\ stack = << >>

(***************************************************************************)
(* C11                                                                     *)
(***************************************************************************)
\* the index of the first byte after ":" Name and the gap that follows it
AfterMethodName == Len(MethodLead(case)) + Len(case.gap)

\* C11: when a token follows a ":" Name suffix it must start call
\* arguments: with any other token parse raises at that token's first byte
\* (at its second byte for a "[" that opens no long string).
\* With arguments the chain is a call: it leaves the tags rvalue and
\* function_call on the stack, it is accepted as a statement and as an
\* expression, and it is rejected as an assignment target, unless a further
\* "." Name suffix makes the chain a var again.
C11_MethodNameNeedsArguments ==
    /\ (family = "methods" /\ finished /\ case.follower \in MethodOthers) =>
          (pc = "raised" /\ err = AfterMethodName + (IF case.follower = "[e]() " THEN 1 ELSE 0))
    /\ (family = "methods" /\ finished /\ case.follower \in MethodArguments) =>
          ((pc = "returned") <=> (case.tail \in {"; ", ".c = 1 "}))
    /\ (/\ family = "methods"
        /\ pc = "running"
        /\ state = "statement_read_lvalue_hopefully"
        /\ case.context = "statement"
        /\ case.tail # ".c = 1 ") =>
          /\ case.follower \in MethodArguments
          /\ i = AfterMethodName + Len(case.follower)
          /\ stack = <<"function_call", "rvalue">>

C11_MethodCallRejectedAsTarget ==
    /\ family = "methods"
    /\ input = Bytes("a:b ()= 1 ")
    /\ pc = "raised"
    /\ err = 6
    /\ state = "statement"

(***************************************************************************)
(* C12                                                                     *)
(***************************************************************************)
\* what may follow the return statement of d
ReturnMayContinue(d) ==
    \/ d.continuation = ""
    \/ d.continuation = " end" /\ d.block \in {"do", "while", "if", "for", "function"}
    \/ d.continuation \in {" else", " elseif"} /\ d.block = "if"
    \/ d.continuation = " until" /\ d.block = "repeat"

\* C12: parse accepts what follows "return [explist] [;]" only when it is
\* the end of the input, or the keyword that closes the enclosing block
\* ("end" in do, while, if, for and function bodies, "else" and "elseif" in
\* an if, "until" in a repeat); with any other continuation, and with an
\* explist that ends in ",", parse fails.
C12_OnlyBlockEndsFollowReturn ==
    (family = "returns" /\ finished) =>
        ((pc = "returned") <=> (case.explist # " 1," /\ ReturnMayContinue(case)))

(***************************************************************************)
(* C13                                                                     *)
(***************************************************************************)
\* parse has read a statement-level "end" and is about to close a block
AtStatementEnd ==
    /\ family = "ends"
    /\ pc = "running"
    /\ state = "statement_end"
    /\ i < Len(input)

\* C13: a statement-level "end" is accepted only with statement_do,
\* statement_while, statement_if, statement_for or func_body on top of the
\* stack, and it pops that one symbol; with an empty stack or another
\* symbol on top parse fails, so that a chunk with an "end" more than it
\* has open blocks is rejected, and a balanced one is accepted.
C13_EndClosesOneOpenBlock ==
    /\ AtStatementEnd =>
          /\ consumes(state, stack, input[i + 1]) <=>
                 (/\ stack # << >>
                  /\ stack[Len(stack)] \in {"statement_do", "statement_while", "statement_if",
                                            "statement_for", "func_body"})
          /\ consumes(state, stack, input[i + 1]) =>
                 find_transition(state, stack, input[i + 1])[3] = "pop"
    /\ (family = "ends" /\ finished) =>
          ((pc = "raised") <=> (case.text \in EndUnbalanced))

(***************************************************************************)
(* C14                                                                     *)
(***************************************************************************)
\* C14: with no byte after the numeral, parse accepts an assignment of a
\* well-formed numeral (a = 0xFFp-2) and raises on one whose numeral is a
\* bare 0x, has an empty exponent, or is a lone "." (a = 0x, a = 12e,
\* a = .).
C14_MalformedNumeralsAreRejected ==
    (family = "numerals" /\ finished /\ case.trail = "") =>
        ((pc = "returned") <=> (case.text \in NumeralsWellFormed))

(***************************************************************************)
(* C15                                                                     *)
(***************************************************************************)
\* C15: after a complete operand, "and" and "or" followed by a non-name
\* byte are binary operators, so that an operand must follow them: the
\* chunk is accepted with the operand z, and rejected with nothing or with
\* an argument list after the operator.  Any other name that starts with a
\* or o leaves the expression through the trailing-name exit and starts the
\* next statement, so that the chunk is accepted when an argument list
\* follows the name, and rejected when a second name follows it.
C15_OnlyAndOrAreWordOperators ==
    /\ (family = "words" /\ state = "expression_exit_trailing_name") =>
          case.word \in WordNames
    /\ (family = "words" /\ state \in {"expression_binop_and", "expression_binop_or"}) =>
          state = "expression_binop_" \o case.word
    /\ (family = "words" /\ finished /\ (case.rest = "" => case.word \in WordOperators)) =>
          ((pc = "returned") <=>
              IF case.word \in WordOperators THEN case.rest = " z"
              ELSE case.rest \in {"(nil,nil)", " ( nil , nil ) ; "})

(***************************************************************************)
(* C16                                                                     *)
(***************************************************************************)
\* the value of the longest run of at most three digits after the backslash
EscapeRunValue(d) ==
    LET len == d.width + Len(d.extra)
        all == IF d.extra = "" THEN d.n ELSE 10 * d.n + 7
    IN  all \div (10 ^ (len - Min(3, len)))

\* C16: a short string with a decimal escape is accepted exactly when the
\* longest run of at most three digits after the backslash has a value of
\* 255 or less; otherwise parse raises at the third digit.
C16_DecimalEscapeAtMost255 ==
    (family = "escapes" /\ finished) =>
        IF EscapeRunValue(case) <= 255 THEN pc = "returned"
        ELSE pc = "raised" /\ err = 8

C16_Escape256Rejected ==
    /\ family = "escapes"
    /\ input = Bytes("a = \"\\256\" ")
    /\ pc = "raised"
    /\ err = 8
    /\ state = "short_string_esc_seq_2_5"

(***************************************************************************)
(* C17                                                                     *)
(***************************************************************************)
\* the digits of d are a value of at most 0x7FFFFFFF: fewer than eight
\* digits from the first nonzero one on, or eight of which the first is at
\* most 7
AtMost7FFFFFFF(d) ==
    \/ d.first = ""
    \/ 1 + d.more < 8
    \/ 1 + d.more = 8 /\ d.first \in {"1", "7"}

\* C17: a short string with a \u{...} escape is accepted exactly when there
\* is at least one hex digit between the braces, nothing but hex digits,
\* and the value is at most 0x7FFFFFFF, whatever the number of leading
\* zeros.
C17_UnicodeEscapeAtMost7FFFFFFF ==
    (family = "unicodes" /\ finished) =>
        ((pc = "returned") <=>
            (/\ case.junk = ""
             /\ case.zeros + Len(case.first) >= 1
             /\ AtMost7FFFFFFF(case)))

C17_Escape80000000Rejected ==
    /\ family = "unicodes"
    /\ input = Bytes("a = \"\\u{0080000000}\" ")
    /\ pc = "raised"
    /\ state = "short_string_esc_seq_u{_8-F_+6"

(***************************************************************************)
(* C18                                                                     *)
(***************************************************************************)
\* piece k of d is a line break that \z skips
SkippedByZ(d, k) ==
    \E j \in 1..(k - 1) :
        /\ d.pieces[j] = "\\z"
        /\ \A m \in (j + 1)..k : d.pieces[m] \in {"\n", "\r"}

\* piece k of d is a raw line break, or the quote that opened the string
StopsString(d, k) ==
    \/ d.pieces[k] = "Q"
    \/ d.pieces[k] \in {"\n", "\r"} /\ ~ SkippedByZ(d, k)

\* the first such piece of d; Len(d.pieces) + 1, the closing quote, if none
FirstStop(d) ==
    IF \E k \in 1..Len(d.pieces) : StopsString(d, k)
    THEN CHOOSE k \in 1..Len(d.pieces) :
             StopsString(d, k) /\ \A j \in 1..(k - 1) : ~ StopsString(d, j)
    ELSE Len(d.pieces) + 1

\* the index of the first byte of piece k in the input
PieceIndex(d, k) == 5 + Len(PiecesText(d, k - 1))

\* the state is one of those in which the content of a short string is read
InShortString ==
    /\ Len(state) >= 12
    /\ SubSeq(state, 1, 12) = "short_string"
    /\ state \notin {"short_string_start", "short_string_end"}

\* C18: a short string ends at the first unescaped occurrence of the quote
\* that opened it and not before: up to that byte parse is inside the
\* string, the other quote and escaped quotes being content, and right
\* after it parse has left the string.  A line break that no backslash
\* precedes and no \z skips makes parse raise at the line break.  A string
\* without such a line break or quote in its content is accepted.
C18_StringEndsAtItsOwnQuote ==
    /\ (family = "strings" /\ pc # "idle" /\ i >= 5 /\ i <= PieceIndex(case, FirstStop(case))) =>
          InShortString
    /\ (/\ family = "strings"
        /\ pc # "idle"
        /\ i = PieceIndex(case, FirstStop(case)) + 1
        /\ FirstStop(case) <= Len(case.pieces) => case.pieces[FirstStop(case)] = "Q") =>
          ~ InShortString
    /\ (/\ family = "strings"
        /\ finished
        /\ FirstStop(case) <= Len(case.pieces)
        /\ case.pieces[FirstStop(case)] # "Q") =>
          (pc = "raised" /\ err = PieceIndex(case, FirstStop(case)))
    /\ (family = "strings" /\ finished /\ FirstStop(case) = Len(case.pieces) + 1) =>
          pc = "returned"

C18_OtherQuoteIsContent ==
    /\ family = "strings"
    /\ input = Bytes("a = \"'\n\" ")
    /\ pc = "raised"
    /\ err = 6
    /\ state = "short_string"
    /\ stack[Len(stack)] = "\""

(***************************************************************************)
(* C19                                                                     *)
(***************************************************************************)
\* C19: a numerical for-loop is accepted exactly when its loop variable is
\* one name that is no keyword, two or three expressions follow the `=`, and
\* `do` follows them; with the one expression `1` parse raises at the `d` of
\* `do`, index 10.
C19_NumericForTakesTwoOrThreeExps ==
    /\ (family = "fors" /\ finished) =>
           (pc = "returned" <=> /\ case.variable \in {"a", "i"}
                                /\ case.exps \in {2, 3}
                                /\ case.rest # " end ")
    /\ (/\ family = "fors"
        /\ finished
        /\ case.variable = "a"
        /\ case.exp = "1"
        /\ case.exps = 1) =>
           pc = "raised" /\ err = 10

C19_OneExpressionRejected ==
    /\ family = "fors"
    /\ input = Bytes("for a = 1 do end")
    /\ pc = "raised"
    /\ err = 10
    /\ state = "statement_numfor_=_exp"

(***************************************************************************)
(* C20                                                                     *)
(***************************************************************************)
\* C20: a table constructor whose first field has the form key = value is
\* accepted exactly when the key is one name with no unary minus before it
\* and a value follows the `=`; a field with no `=` is accepted for every
\* key.  When the `=` has been read, the top of the stack is only_name
\* exactly for a key that is one name, above had_minus exactly for a key
\* that a minus precedes, and only a key that is one name with no minus
\* reaches the state that reads the value.
C20_NameFieldNeedsOnlyNameAndNoMinus ==
    /\ (family = "fields" /\ finished) =>
           (pc = "returned" <=> \/ case.value = ""
                                \/ /\ case.value \in {" = 5", "= -1"}
                                   /\ case.key \in {"five", "x"})
    /\ (/\ family = "fields"
        /\ pc # "idle"
        /\ case.value # ""
        /\ state = "table_constructor_field_after_name_or_exp_=_(1)") =>
           /\ Len(stack) >= 2
           /\ stack[Len(stack)] = (IF case.key \in {"five", "x", "-x", "- x"}
                                   THEN "only_name" ELSE "not_only_name")
           /\ stack[Len(stack) - 1] = (IF case.key \in {"-x", "- x", "-23"}
                                       THEN "had_minus" ELSE "did_not_have_minus")
    /\ (/\ family = "fields"
        /\ pc # "idle"
        /\ case.value # ""
        /\ state = "table_constructor_field_name_=_(3)") =>
           case.key \in {"five", "x"}

C20_MinusNameFieldRejected ==
    /\ family = "fields"
    /\ input = Bytes("a = { -x = 5 }")
    /\ pc = "raised"
    /\ err = 10
    /\ state = "table_constructor_field_name_=_(2)"
    /\ stack[Len(stack)] = "had_minus"

(***************************************************************************)
(* C21                                                                     *)
(***************************************************************************)
\* the tokens of the first n items of d: a "," for every separator that is
\* one, nothing for an empty item
RECURSIVE ParamTokens(_, _)
ParamTokens(d, n) ==
    IF n = 0 THEN << >>
    ELSE ParamTokens(d, n - 1)
            \o (IF n > 1 /\ d.sep = "," THEN <<",">> ELSE << >>)
            \o (CASE d.items[n] = "" -> << >>
                  [] d.items[n] = "a..." -> <<"a", "...">>
                  [] OTHER -> <<d.items[n]>>)

\* Name ("," Name)* ("," "...")?
RECURSIVE IsNameList(_)
IsNameList(toks) ==
    /\ toks # << >>
    /\ toks[1] = "a"
    /\ \/ Len(toks) = 1
       \/ /\ Len(toks) >= 3
          /\ toks[2] = ","
          /\ \/ SubSeq(toks, 3, Len(toks)) = <<"...">>
             \/ IsNameList(SubSeq(toks, 3, Len(toks)))

\* (Name ("," Name)* ("," "...")? | "...")?
IsParList(toks) == toks = << >> \/ toks = <<"...">> \/ IsNameList(toks)

\* C21: a function statement, a local function and a function expression
\* are accepted exactly when the parameter list is empty, "...", or names
\* separated by commas with an optional ", ..." at the end, and ")" closes
\* it; every other list that ")" closes makes parse raise inside the list
\* or on the ")".
C21_ParameterListForms ==
    /\ (family = "params" /\ finished) =>
           (pc = "returned" <=>
               (case.close = ")" /\ IsParList(ParamTokens(case, Len(case.items)))))
    /\ (family = "params" /\ pc = "raised" /\ case.close = ")") =>
           err <= Len(input) - Len(") end ")

C21_TrailingCommaRejected ==
    /\ family = "params"
    /\ input = Bytes("a = function (a,) end ")
    /\ pc = "raised"
    /\ err = 16
    /\ state = "parlist_after_comma"

(***************************************************************************)
(* C22                                                                     *)
(***************************************************************************)
\* the index of the first byte of the gap of d, and of the first byte after
\* it
GapStart(d) == Len(Concat(SubSeq(InsertBases[d.base], 1, d.pos)))

GapEnd(d) == GapStart(d) + Len(GapText(d.gap))

\* where the machine starts to read the gap of d: at the "-" token, when
\* the gap is a comment right after it
WhitespaceStart(d) == IF CommentAfterMinus(d) THEN GapStart(d) - 1 ELSE GapStart(d)

\* the step of the run from (s, st, j) that moves the cursor right from k:
\* the configuration it is taken in and the one it leads to; None when the
\* run ends before
RECURSIVE StepOver(_, _, _, _, _)
StepOver(s, st, j, inp, k) ==
    IF j >= Len(inp) \/ j > k \/ ~ consumes(s, st, inp[j + 1]) THEN None
    ELSE LET t == find_transition(s, st, inp[j + 1])
             to == apply_op(t[3], t[4], st)
         IN  IF j = k /\ t[2] = "right"
             THEN [from |-> <<s, st>>, to |-> <<t[1], to>>]
             ELSE StepOver(t[1], to, advance(j, t[2]), inp, k)

\* the configuration in which parse(inp) consumes the byte at index k
Consumer(inp, k) == StepOver(initial_state, << >>, 0, inp, k).from

\* the gap of d is a comment that starts as a long bracket's opening,
\* "--[" and "="s, and goes on with another byte than "["
OpeningCutShort(d) == d.gap.kind \in {"line_open", "line_bracket"}

\* C22: after "--", a "[" followed by "="s and then by a byte other than
\* "[" opens no long comment: the machine never enters the long bracket's
\* body, once the first byte of the comment is consumed parse does not
\* raise before the comment is over, it reads up to the line break in
\* comment_single_line, and the step that consumes the line break leads to
\* the state and the stack in which the first byte of the comment was
\* consumed.
C22_OpeningCutShortIsLineComment ==
    [][ (pc = "running" /\ family = "insert" /\ OpeningCutShort(case)) =>
            /\ state' # MCOLS
            /\ pc' = "raised" => err' \notin (WhitespaceStart(case) + 1)..(GapEnd(case) - 1)
            /\ (i = GapEnd(case) - 1 /\ i' = GapEnd(case)) =>
                   /\ state = "comment_single_line"
                   /\ <<state', stack'>> = Consumer(input, WhitespaceStart(case)) ]_vars

C22_BackInStatementAfterLineBreak ==
    /\ family = "insert"
    /\ input = Bytes("do --[=\n end")
    /\ pc = "running"
    /\ i = 8
    /\ state = "statement"
    /\ stack = <<"statement_do">>

(***************************************************************************)
(* C30                                                                     *)
(***************************************************************************)
\* the first byte after the comment of the gap of d as the machine closes
\* it: a bracket of level 10 or more in the comment's body closes a comment
\* of level 10 or more
CommentEnd(d) ==
    IF d.gap.kind = "decoy" /\ d.gap.level >= EQUALS_TO_SUPPORT
    THEN GapStart(d) + Len("--[") + d.gap.level + Len("[ ]") + (d.gap.level + 1) + Len("]")
    ELSE GapEnd(d)

\* the gap of d is read as the whitespace or the comment it was put in as:
\* right after a "-" token, "--[" is the line comment "-[" and not the
\* opening of a long comment
ReadAsPutIn(d) == ~ (CommentAfterMinus(d) /\ d.gap.kind \in {"long", "decoy"})

\* the step that consumes the last byte before index k leads to the
\* configuration in which the first byte of the gap was consumed, and
\* parse does not raise between the two
ReturnsAt(k) ==
    (pc = "running" /\ family = "insert" /\ ReadAsPutIn(case)) =>
        /\ pc' = "raised" => err' \notin (WhitespaceStart(case) + 1)..(k - 1)
        /\ (i = k - 1 /\ i' = k) =>
               <<state', stack'>> = Consumer(input, WhitespaceStart(case))

\* C30 as stated: from the state that consumes the first byte of a gap of
\* whitespace, of a "--" comment or of a "--[=*[ ... ]=*]" comment, the
\* machine is back in that state with that stack when the last byte of the
\* gap, the comment's own closing "]", is consumed.
C30_GapReturnsToItsState ==
    [][ReturnsAt(GapEnd(case))]_vars

\* the machine has read "-" and stands on a byte that no comment starts with
AtMinusTransition ==
    /\ pc = "running"
    /\ family = "insert"
    /\ Len(state) > Len("possible_comment_-__")
    /\ SubSeq(state, 1, Len("possible_comment_-__")) = "possible_comment_-__"

\* C30, amended: the same, for a "--[=*[ ... ]=*]" comment of level 10 or
\* more at the first "]=*]" of level 10 or more; and when a "-" is followed
\* by another byte than "-", the machine is in the state named after the
\* one that consumed the "-", the "-" consumed, that byte not, with the
\* stack as it was when the "-" was consumed, and the transition it takes
\* there is the one the table holds for every byte of that state.
C30_GapReturnsWhereMachineClosesIt ==
    [][ /\ ReturnsAt(CommentEnd(case))
        /\ AtMinusTransition =>
               /\ i >= 1
               /\ input[i] = "-"
               /\ input[i + 1] # "-"
               /\ <<SubSeq(state, Len("possible_comment_-__") + 1, Len(state)), stack>>
                      = Consumer(input, i - 1)
               /\ \A c \in u8_complement({"-"}) :
                      transitions_get(state, c, None) = transitions_get(state, input[i + 1], None) ]_vars

C30_LongCommentReturnsToExpression ==
    /\ family = "insert"
    /\ input = Bytes("a=b--[=========[c]=========]-1 ")
    /\ pc = "running"
    /\ i = 28
    /\ <<state, stack>> = Consumer(input, 3)

(***************************************************************************)
(* C23                                                                     *)
(***************************************************************************)
\* how many bytes the first line of inp has, its line break included
FirstLine(inp) ==
    LET breaks == {k \in 1..Len(inp) : inp[k] \in {"\r", "\n"}}
    IN  IF breaks = {} THEN Len(inp) ELSE CHOOSE k \in breaks : \A j \in breaks : k <= j

\* the indexes of the "#"s of inp that are not in a "#" first line and
\* that no quote precedes
LaterBangs(inp) ==
    LET from == IF inp[1] = "#" THEN FirstLine(inp) ELSE 0
    IN  {k \in from..(Len(inp) - 1) :
            /\ inp[k + 1] = "#"
            /\ \A j \in (from + 1)..k : inp[j] # "\""}

\* C23: if the first byte is "#", every byte of the first line, its "\r" or
\* "\n" included, is consumed whatever it is, in start and start_# with the
\* stack empty and without an error, and the machine is then in statement
\* with the stack empty; if the first byte is not "#", the first step
\* leads to statement without consuming it.  start is never entered again,
\* and a "#" after the first line (or anywhere, when the first byte is not
\* "#") is not skipped: parse raises at it or before it.
C23_FirstLineSkippedOnlyAfterBang ==
    (family = "bangs" /\ pc # "idle" /\ input # << >>) =>
        /\ (input[1] = "#" /\ i < FirstLine(input)) =>
               /\ state = (IF steps = 0 THEN "start" ELSE "start_#")
               /\ stack = << >>
               /\ steps = i
               /\ pc # "raised"
        /\ (input[1] = "#" /\ i = FirstLine(input) /\ steps = i /\ Len(input) > i) =>
               (state = "statement" /\ stack = << >>)
        /\ (input[1] # "#" /\ steps = 1) =>
               (state = "statement" /\ stack = << >> /\ i = 0)
        /\ steps > 0 => state # "start"
        /\ (finished /\ LaterBangs(input) # {}) =>
               (pc = "raised" /\ \A k \in LaterBangs(input) : err <= k)

C23_SecondBangLineRejected ==
    /\ family = "bangs"
    /\ input = <<"#", "\"", "\r", "#">>
    /\ pc = "raised"
    /\ err = 3
    /\ state = "statement"
    /\ stack = << >>

(***************************************************************************)
(* C24                                                                     *)
(***************************************************************************)
\* what one iteration of parse's loop makes of the configuration (s, st, k)
StepOf(s, st, k, inp) ==
    IF k >= Len(inp) THEN <<s, st, k, "returned">>
    ELSE LET t == find_transition(s, st, inp[k + 1])
         IN  IF completes(t, st)
             THEN <<t[1], apply_op(t[3], t[4], st), advance(k, t[2]), "running">>
             ELSE <<s, st, k, "raised">>

\* the keys (state, byte, top) and (state, byte, None) are both in the
\* table, with different transitions
TwoKeysMatch ==
    /\ pc = "running"
    /\ i < Len(input)
    /\ stack # << >>
    /\ transitions_get(state, input[i + 1], stack[Len(stack)]) # NoTransition
    /\ transitions_get(state, input[i + 1], None) # NoTransition
    /\ transitions_get(state, input[i + 1], stack[Len(stack)])
           # transitions_get(state, input[i + 1], None)

\* C24: a parse on a new instance starts in one configuration, every
\* configuration of the run has one successor, which the configuration and
\* the input determine, and so has the outcome: two parses of the same
\* bytes pass through the same configurations and end the same way.
C24_RunIsAFunctionOfTheInput ==
    [][ /\ pc = "idle" => <<state', stack', i', pc'>> = <<initial_state, << >>, 0, "running">>
        /\ pc = "running" =>
               (<<state', stack', i', pc'>> = StepOf(state, stack, i, input) /\ input' = input)
        /\ (pc = "running" /\ pc' # "running") =>
               LET end == parse(initial_state, << >>, 0, input)
               IN  <<end.outcome, end.state, end.stack, end.i>> = <<pc', state', stack', i'>>
      ]_vars

C24_TwoKeysOneSuccessor ==
    /\ TwoKeysMatch
    /\ family = "stays"
    /\ steps > 0

(***************************************************************************)
(* C25                                                                     *)
(***************************************************************************)
\* the entry of the table under the key with the current stack top, if the
\* stack has one
SpecificEntry ==
    IF stack = << >> THEN NoTransition
    ELSE transitions_get(state, input[i + 1], stack[Len(stack)])

\* the entry of the table under the key with None
WildcardEntry == transitions_get(state, input[i + 1], None)

\* the iteration of parse's loop at the cursor applies transition t
Applies(t) ==
    /\ t # NoTransition
    /\ op_succeeds(t[3], stack) =>
           /\ pc' = "running"
           /\ <<state', stack', i'>> = <<t[1], apply_op(t[3], t[4], stack), advance(i, t[2])>>
    /\ ~ op_succeeds(t[3], stack) => pc' = "raised"

\* C25: consume_character applies the entry under (state, byte, top) when
\* the stack is non-empty and the table has it, whether or not it also has
\* an entry under (state, byte, None); it applies the entry under
\* (state, byte, None) when the table has no entry for the top, and on an
\* empty stack no other entry; with neither entry it raises.
C25_SpecificEntryBeforeWildcard ==
    [][ (pc = "running" /\ i < Len(input)) =>
            /\ SpecificEntry # NoTransition => Applies(SpecificEntry)
            /\ (SpecificEntry = NoTransition /\ WildcardEntry # NoTransition) =>
                   Applies(WildcardEntry)
            /\ (SpecificEntry = NoTransition /\ WildcardEntry = NoTransition) =>
                   pc' = "raised"
      ]_vars

\* the subclass read "k" with "A" on top of the stack, where its table has
\* both entries, and went where the entry for "A" leads
C25_EntryForTopApplied ==
    /\ family = "toy"
    /\ input = <<"u", "k">>
    /\ pc = "running"
    /\ state = "seen_A"
    /\ stack = <<"A">>
    /\ i = 1
    /\ stays = 1

(***************************************************************************)
(* C26                                                                     *)
(***************************************************************************)
\* the elements of the stack below index n are as they were
SameBelow(n) == \A k \in 1..(n - 1) : stack'[k] = stack[k]

\* pop, then push of value, in one step
PoppedThenPushed(value) == stack' = Append(SubSeq(stack, 1, Len(stack) - 1), value)

\* C26: the iteration of parse's loop that finds a transition changes the
\* stack as the op of the transition says: read leaves it as it is; push
\* puts the value on top of the elements it has; pop takes the top away and
\* nothing else; replace on a non-empty stack puts the value where the top
\* was, at the same depth and over the same elements, as pop followed by
\* push does; pop and replace on an empty stack raise.
C26_StackChangesAsTheOpSays ==
    [][ (pc = "running" /\ i < Len(input)
            /\ find_transition(state, stack, input[i + 1]) # NoTransition) =>
            LET t == find_transition(state, stack, input[i + 1])
                depth == Len(stack)
            IN  /\ t[3] = "read" => (pc' = "running" /\ stack' = stack)
                /\ t[3] = "push" =>
                       /\ pc' = "running"
                       /\ Len(stack') = depth + 1
                       /\ stack'[depth + 1] = t[4]
                       /\ SameBelow(depth + 1)
                /\ (t[3] = "pop" /\ depth > 0) =>
                       /\ pc' = "running"
                       /\ Len(stack') = depth - 1
                       /\ SameBelow(depth)
                /\ (t[3] = "replace" /\ depth > 0) =>
                       /\ pc' = "running"
                       /\ Len(stack') = depth
                       /\ stack'[depth] = t[4]
                       /\ SameBelow(depth)
                       /\ PoppedThenPushed(t[4])
                /\ (t[3] \in {"pop", "replace"} /\ depth = 0) =>
                       (pc' = "raised" /\ stack' = stack)
      ]_vars

\* the subclass replaced the top "A" of a stack of two elements by "B"
C26_TopReplacedOverLowerElement ==
    /\ family = "toy"
    /\ input = <<"u", "u", "r">>
    /\ pc = "running"
    /\ i = 3
    /\ stack = <<"A", "B">>

(***************************************************************************)
(* C27                                                                     *)
(***************************************************************************)
\* the transition that the lookup at the cursor finds
Found == find_transition(state, stack, input[i + 1])

\* C27: the cursor never moves back; the step of a transition whose
\* direction is right moves it one byte on, the step of one whose direction
\* is stay leaves it where it is, inside the same input, so that the next
\* lookup is made with the same byte; and every lookup is made with the
\* state and the stack that the step before it left.
C27_CursorMovesAsTheDirectionSays ==
    [][ /\ pc = "running" => i' >= i
        /\ (pc = "running" /\ pc' = "running") =>
               /\ Found[2] = "right" => i' = i + 1
               /\ Found[2] = "stay" =>
                      /\ i' = i
                      /\ input' = input
                      /\ i' < Len(input')
                      /\ input'[i' + 1] = input[i + 1]
               /\ state' = Found[1]
               /\ stack' = IF Found[3] = "read" THEN stack
                           ELSE IF Found[3] = "push" THEN Append(stack, Found[4])
                           ELSE IF Found[3] = "pop" THEN SubSeq(stack, 1, Len(stack) - 1)
                           ELSE Append(SubSeq(stack, 1, Len(stack) - 1), Found[4])
      ]_vars

\* a call's closing parenthesis is read a third time, by the state and
\* with the stack that two stay steps left
C27_SameByteReadAgain ==
    /\ family = "stays"
    /\ input = Bytes("f(a) ")
    /\ pc = "running"
    /\ stays = 2
    /\ i = 3

(***************************************************************************)
(* C28                                                                     *)
(***************************************************************************)
\* the step at the cursor fails: the table has no key for it, or the
\* transition found has an op that is none of the four, or it pops or
\* replaces the top of an empty stack
NoKey == pc = "running" /\ i < Len(input) /\ Found = NoTransition

UnknownOp ==
    /\ pc = "running" /\ i < Len(input) /\ Found # NoTransition
    /\ Found[3] \notin {"push", "pop", "read", "replace"}

EmptyStackOp ==
    /\ pc = "running" /\ i < Len(input) /\ Found # NoTransition
    /\ Found[3] \in {"pop", "replace"}
    /\ stack = << >>

\* C28: a step that fails ends the parse with the error that names the
\* cursor, and leaves the state and the stack as they were before it,
\* whatever state the transition found names.
C28_FailedStepLeavesStateAndStack ==
    [][ (NoKey \/ UnknownOp \/ EmptyStackOp) =>
            /\ pc' = "raised"
            /\ err' = i
            /\ state' = state
            /\ stack' = stack
            /\ i' = i
      ]_vars

\* the subclass met a pop that leads to another state on an empty stack,
\* and is in the state it was in
C28_PopOnEmptyStackKeepsState ==
    /\ family = "toy"
    /\ input = <<"u", "o", "p">>
    /\ pc = "raised"
    /\ err = 2
    /\ state = "start"
    /\ stack = << >>

(***************************************************************************)
(* C29                                                                     *)
(***************************************************************************)
HasPrefix(str, p) == Len(str) >= Len(p) /\ SubSeq(str, 1, Len(p)) = p

EndsWith(str, p) == Len(str) >= Len(p) /\ SubSeq(str, Len(str) - Len(p) + 1, Len(str)) = p

Contains(str, p) == \E k \in 1..(Len(str) - Len(p) + 1) : SubSeq(str, k, k + Len(p) - 1) = p

\* the readers that push this_stack_value, their name and the start_state
\* of the caller, when they are entered
Readers == {"name_or_keyword", "name_list", "lrvalue", "expression", "expression_list"}

IsSentinelOf(sym, r) == HasPrefix(sym, r \o "__")

CallerOf(sym, r) == SubSeq(sym, Len(r) + Len("__") + 1, Len(sym))

\* st is one of the intermediate states from which reader r takes a
\* transition that its caller supplied
ExitShaped(st, r) ==
    CASE r = "name_or_keyword" ->
             HasPrefix(st, "name_from__") \/ (HasPrefix(st, "keyword_") /\ Contains(st, "_from__"))
      [] r = "name_list" -> HasPrefix(st, "name_list_exit_") /\ Contains(st, "from__")
      [] r = "lrvalue" -> HasPrefix(st, "lrvalue_exit") /\ Contains(st, "_from__")
      [] r = "expression" -> HasPrefix(st, "expression_exit") /\ Contains(st, "_from__")
      [] r = "expression_list" -> HasPrefix(st, "expression_list_exit") /\ Contains(st, "_from__")

\* st is the intermediate state of reader r that its sentinel for the
\* caller S leads to
ReturnsTo(st, r, S) ==
    /\ ExitShaped(st, r)
    /\ CASE r = "lrvalue" ->
                \/ Contains(st, "_from__lrvalue__" \o S \o "__with__") /\ EndsWith(st, "__1")
                \/ HasPrefix(st, "lrvalue_exit_keyword_from__" \o S \o "__with__")
         [] OTHER -> EndsWith(st, "_from__" \o S)

\* the tags that the callers of the long bracket, the short string, the
\* table constructor and the function body push, and the states that the
\* end of the construct leads to under each
Continuations ==
    [multiline_comment |-> {"comment_multiline_end", "comment_single_line"},
     long_string |-> {"expression_binop-or-end"},
     lrvalue_long_string_func_args |-> {"lrvalue_read_[[_func_args_]]"},
     table_constructor_long_string_field_exp |->
         {"table_constructor_field_after_name_or_exp_before_whitespace"},
     lrvalue_short_string |-> {"lrvalue_read_func_args_\"_\""},
     expression_short_string |-> {"expression_binop-or-end"},
     lrvalue_read_func_args_braces |-> {"lrvalue_read_func_args_{_}"},
     expression_table_constructor |-> {"expression_table_constructor_end"},
     expression_function |-> {"expression_after_func_body"},
     statement_function |-> {"statement"},
     statement_local_function |-> {"statement"}]

TagName(sym) == IF sym = "lrvalue_read_func_args_{}" THEN "lrvalue_read_func_args_braces" ELSE sym

IsTag(sym) == TagName(sym) \in DOMAIN Continuations

\* the states in which the four constructs end
EndStates == {MCOLS \o "_end", MCOLS \o "_end_opening_fail", "short_string_end",
              "table_constructor_end", "func_body_end"}

\* what the callers find on the stack where the sentinel was
ResultTags ==
    {"beginning", "only_name", "not_only_name", "lvalue_or_rvalue", "rvalue",
     "function_call", "not_function_call"} \cup {KEYWORDS[k].name : k \in DOMAIN KEYWORDS}

\* the step takes the top of the stack away, or puts something in its place
TopRemoved ==
    /\ stack # << >>
    /\ \/ Len(stack') = Len(stack) - 1
       \/ Len(stack') = Len(stack) /\ stack'[Len(stack)] # stack[Len(stack)]

BelowTopUnchanged ==
    SubSeq(stack', 1, Len(stack) - 1) = SubSeq(stack, 1, Len(stack) - 1)

\* the discipline of the sentinels, with the tags of kept left out of it
SentinelsPopped(kept) ==
    (pc = "running" /\ pc' = "running" /\ i < Len(input)) =>
        /\ \A r \in Readers :
               /\ (TopRemoved /\ IsSentinelOf(stack[Len(stack)], r)) =>
                      /\ ReturnsTo(state', r, CallerOf(stack[Len(stack)], r))
                      /\ BelowTopUnchanged
                      /\ Len(stack') = Len(stack) => stack'[Len(stack)] \in ResultTags
               /\ (ExitShaped(state', r) /\ ~ ExitShaped(state, r)) =>
                      /\ TopRemoved
                      /\ IsSentinelOf(stack[Len(stack)], r)
               /\ (Len(stack') = Len(stack) + 1 /\ IsSentinelOf(stack'[Len(stack')], r)) =>
                      CallerOf(stack'[Len(stack')], r) = state
        /\ (TopRemoved /\ IsTag(stack[Len(stack)]) /\ stack[Len(stack)] \notin kept) =>
               /\ state \in EndStates
               /\ state' \in Continuations[TagName(stack[Len(stack)])]
               /\ stack' = SubSeq(stack, 1, Len(stack) - 1)
        /\ (state \in EndStates /\ state' \notin EndStates
                /\ ~ (stack # << >> /\ stack[Len(stack)] \in kept)) =>
               /\ TopRemoved
               /\ IsTag(stack[Len(stack)])

FieldTag == "table_constructor_long_string_field_exp"

IsKeyword(w) == \E k \in DOMAIN KEYWORDS : KEYWORDS[k].name = w

\* the cursor at the first byte of the word, and at the byte after it
WordStart(d) == Len(d.caller.prefix)

WordEnd(d) == WordStart(d) + Len(d.word)

\* the intermediate states from which the caller's name_transition and
\* keyword_transition are taken
NameExit(d) == "name_from__" \o d.caller.start

KeywordExit(d) == "keyword_" \o d.word \o "_from__" \o d.caller.start

\* the stack of the caller with this_stack_value on top
InReader(d) == Append(d.caller.stack, "name_or_keyword__" \o d.caller.start)

\* C31: the reader is entered at the first byte of the word with the stack
\* of the caller under its sentinel, stays in its states name_or_keyword
\* and name up to the byte after the word, and at that byte, which it does
\* not consume, it goes to the caller's keyword_transition with the word
\* on top of the caller's stack if the word is a keyword, and to the
\* caller's name_transition with the caller's stack as it was if it is not,
\* be it the beginning of a keyword or a keyword with more bytes.
C31_KeywordOrNameAtTheBoundary ==
    [][ (family = "names" /\ pc = "running" /\ i \in WordStart(case)..(Len(input) - 1)) =>
            /\ (i = WordStart(case) /\ state = case.caller.start) =>
                   /\ stack = case.caller.stack
                   /\ <<state', stack', i'>> = <<"name_or_keyword", InReader(case), i>>
            /\ (i \in WordStart(case)..(WordEnd(case) - 1)
                    /\ state \in {"name_or_keyword", "name"}) =>
                   /\ pc' = "running"
                   /\ state' \in {"name_or_keyword", "name"}
                   /\ SubSeq(stack', 1, Len(InReader(case))) = InReader(case)
            /\ (i = WordEnd(case) /\ state = "name_or_keyword") =>
                   /\ pc' = "running"
                   /\ state' = IF IsKeyword(case.word) THEN "keyword_" \o case.word ELSE "name"
                   /\ <<stack', i'>> = <<InReader(case), i>>
            /\ (i = WordEnd(case) /\ state = "name") =>
                   /\ ~ IsKeyword(case.word)
                   /\ <<state', stack', i', pc'>> = <<NameExit(case), case.caller.stack, i, "running">>
            /\ (HasPrefix(state, "keyword_") /\ ~ Contains(state, "_from__")) =>
                   /\ IsKeyword(case.word)
                   /\ i = WordEnd(case)
                   /\ <<state', stack', i', pc'>>
                          = <<KeywordExit(case), Append(case.caller.stack, case.word), i, "running">>
            /\ state = NameExit(case) =>
                   /\ i = WordEnd(case)
                   /\ ~ IsKeyword(case.word)
                   /\ <<state', stack', i', pc'>> = <<case.caller.name_to, stack, i, "running">>
            /\ (HasPrefix(state, "keyword_") /\ Contains(state, "_from__")) =>
                   /\ i = WordEnd(case)
                   /\ state = KeywordExit(case)
                   /\ <<state', stack', i', pc'>> = <<case.caller.keyword_to, stack, i, "running">>
            /\ state \in {case.caller.name_to, case.caller.keyword_to} => i >= WordEnd(case)
      ]_vars

\* "endx" where an expression starts has been read as a name: the reader
\* is left for the name_transition of the expression, in front of the "("
C31_KeywordWithMoreBytesIsAName ==
    /\ family = "names"
    /\ pc = "running"
    /\ case.word = "endx"
    /\ case.term = "("
    /\ case.caller.prefix = "a = "
    /\ state = "expression_starting_with_name"
    /\ i = 8
    /\ stack = case.caller.stack

(***************************************************************************)
(* C32                                                                     *)
(***************************************************************************)
\* the cursor at the first "]" after the body, at the "]" that the second
\* candidate starts with, and at the last "]"
FirstBracket(d) == Len(BracketLead(d.kind)) + d.N + Len("[[ x ")

SecondBracket(d) == FirstBracket(d) + d.M + Len(d.cut) + 1

LastBracket(d) == SecondBracket(d) + d.K + 1

\* the "]" at which the bracket is closed, when levels a and b close one
\* another under same(a, b); -1 when no candidate closes it
CloseAt(d, same(_, _)) ==
    IF d.cut = "" /\ same(d.N, d.M) THEN SecondBracket(d)
    ELSE IF same(d.N, d.K) THEN LastBracket(d)
    ELSE -1

ExactLevel(a, b) == a = b

CountedLevel(a, b) == a = b \/ (a >= EQUALS_TO_SUPPORT /\ b >= EQUALS_TO_SUPPORT)

\* the stack with which the long bracket is entered, the tag of the caller
\* on top
BracketEntry(kind) ==
    IF kind = "comment" THEN <<"comment__statement", "multiline_comment">>
    ELSE <<"expression_list__statement_assign_rightside",
           "expression__expression_list_start", "not_only_name", "long_string">>

\* the candidate that same lets close the bracket, and no other, closes it
\* there, with the stack of the entry
ClosedWhere(same(_, _)) ==
    (family = "closers" /\ pc # "idle") =>
        LET close == CloseAt(case, same)
        IN  /\ state = MCOLS \o "_end" => (i = close /\ stack = BracketEntry(case.kind))
            /\ (i > FirstBracket(case) /\ (close = -1 \/ i < close)) =>
                   (HasPrefix(state, MCOLS) /\ state # MCOLS \o "_end")
            /\ (close # -1 /\ i > close) => ~ HasPrefix(state, MCOLS)
            /\ pc = "raised" => (close # -1 /\ err > close)

\* C32 as the claim has it: a candidate closes the bracket only with as
\* many "=" as the opening has.
C32_ClosedByCandidateOfItsLevelOnly == ClosedWhere(ExactLevel)

\* C32: a candidate whose number of "=" differs from that of the opening,
\* unless both are ten or more, does not end the bracket, and its second
\* "]" is the first of the next candidate; the bracket is closed by the
\* first candidate of its level, ten and more counting as one level, and
\* then the stack is that of the entry, the tag of the caller on top.
C32_FailedCandidateStartsTheNext == ClosedWhere(CountedLevel)

\* "a = [====[ x ]]====] ?" has been closed at its last "]"
C32_ClosedOnSecondCandidate ==
    /\ family = "closers"
    /\ input = Bytes("a = [====[ x ]]====] ?")
    /\ state = MCOLS \o "_end"
    /\ i = 19
    /\ stack = BracketEntry("string")

(***************************************************************************)
(* C33  else, elseif and until need the statement they belong to          *)
(***************************************************************************)
\* the symbol the clause of state st needs on top of the stack
ClauseNeeds(st) ==
    CASE st = "statement_else" -> "statement_if"
      [] st = "statement_elseif" -> "statement_if"
      [] st = "statement_until" -> "statement_repeat"

ClauseStates == {"statement_else", "statement_elseif", "statement_until"}

\* the states the expression of an until leaves through
UntilExit(st) == HasPrefix(st, "expression_exit") /\ EndsWith(st, "_from__statement_until")

\* chunks with a clause outside its statement
ClausesRejected ==
    {[opening |-> "", clause |-> "else ", closing |-> ""],
     [opening |-> "repeat ", clause |-> "else ", closing |-> "until nil "],
     [opening |-> "repeat ; until nil ", clause |-> "until nil ", closing |-> ""],
     [opening |-> "while x do ", clause |-> "else ", closing |-> "end "]}

\* C33: the step made in statement_else or statement_elseif succeeds only
\* with statement_if on top of the stack, and the one made in
\* statement_until only with statement_repeat on top; with any other stack
\* the parse fails there.  The step that leaves the expression of an until
\* for a statement pops statement_repeat.  The chunks `else`,
\* `repeat else until nil`, `repeat ; until nil until nil` and
\* `while x do else end` are never read to their end.
C33_ClauseNeedsItsStatementOnTop ==
    [][ (family = "clauses" /\ pc = "running") =>
            /\ (state \in ClauseStates /\ i < Len(input)) =>
                   IF stack # << >> /\ stack[Len(stack)] = ClauseNeeds(state)
                   THEN pc' = "running" /\ state' # state
                   ELSE pc' = "raised" /\ state' = state /\ stack' = stack
            /\ (state = "statement_else" /\ pc' = "running") =>
                   <<state', stack', i'>> = <<"statement", stack, i>>
            /\ (UntilExit(state) /\ pc' = "running") =>
                   /\ stack # << >> /\ stack[Len(stack)] = "statement_repeat"
                   /\ stack' = SubSeq(stack, 1, Len(stack) - 1)
                   /\ state' \in {"statement", "statement_starting_with_name", "statement_dbcolon_:"}
            /\ case \in ClausesRejected => pc' # "returned"
      ]_vars

\* `while x do else end`: the else is dispatched with statement_while on
\* top of the stack and the parse has failed there
C33_ElseInsideWhileRejected ==
    /\ family = "clauses" /\ pc = "raised"
    /\ input = Bytes("while x do else end  ")
    /\ state = "statement_else"
    /\ stack = <<"statement_while">>
    /\ i = 15

(***************************************************************************)
(* C34  one else for an if statement                                       *)
(***************************************************************************)
\* the openings that end inside the else clause of an if statement
InsideElse == {"if x then else ", "if x then elseif y then else "}

\* C34: a chunk in which an else or an elseif follows the else of the
\* same if statement, which an end then closes, is never read to its end.
C34_NothingButEndAfterElse ==
    (family = "clauses" /\ pc = "returned"
        /\ case.opening \in InsideElse /\ case.clause \in {"else ", "elseif y then "}
        /\ case.closing = "end ")
    => FALSE

(***************************************************************************)
(* C35  then, do and in end at a boundary                                  *)
(***************************************************************************)
\* the bytes that continue a name, put between the keyword and the name
\* that follows it
NameGlue == {"", "_", "x", "1"}

\* C35: a chunk in which the then, do or in that closes a header is
\* followed at once by a byte that continues a name is never read to its
\* end.
C35_HeaderKeywordNeedsABoundary ==
    (family = "headers" /\ pc = "returned" /\ case.glue \in NameGlue) => FALSE

(***************************************************************************)
(* C36  a unary minus needs its operand                                    *)
(***************************************************************************)
\* the operators that are a `-` and whitespace
MinusOps == {"-", "- ", " -", "-\n"}

\* C36: a chunk in which an expression slot holds a unary `-`, whitespace
\* and no operand is never read to its end.
C36_UnaryMinusNeedsAnOperand ==
    (family = "operands" /\ pc = "returned") => case.op \notin MinusOps

(***************************************************************************)
(* C39  a hexadecimal numeral has a hex digit                              *)
(***************************************************************************)
\* the digits of the mantissa, before and after the point
MantissaDigits(d) == d.before \o d.after

\* C39: the assignment of a hexadecimal numeral is read to its end only if
\* the mantissa of the numeral has a hex digit, before or after the point.
C39_HexMantissaHasADigit ==
    (family = "hexes" /\ pc = "returned") => MantissaDigits(case) # ""

(***************************************************************************)
(* C37  what is on the stack between two statements                        *)
(***************************************************************************)
\* the symbols of the blocks that are open
BlockSymbols ==
    {"statement_do", "statement_while", "statement_if", "statement_for",
     "statement_repeat", "func_body"}

\* C37: whenever the state is statement, the stack is empty or its top is
\* the symbol of an open block.
C37_OnlyOpenBlocksUnderAStatement ==
    state = "statement" => (stack = << >> \/ stack[Len(stack)] \in BlockSymbols)


\* `while x do foo() end`: the call statement has ended and left the symbol
\* of the while block on top of the stack
C37_CallStatementLeftNothing ==
    /\ family = "headers" /\ pc = "running"
    /\ input = Bytes("while x do foo() end ")
    /\ state = "statement"
    /\ i = Len("while x do foo() ")
    /\ stack = <<"statement_while">>

(***************************************************************************)
(* C38  the Lua table fails on missing keys only                           *)
(***************************************************************************)
\* every op stored in the table of Lua_2PDA is one of the four
TableOpsKnown ==
    \A k \in 1..Len(transitions) : transitions[k].to[3] \in {"push", "pop", "read", "replace"}

\* C38: every op of the Lua table is push, pop, read or replace; no
\* configuration of a parse finds a transition whose op is a pop or a
\* replace while the stack is empty; and a parse that has failed stands on
\* a byte for which the table has no key.
C38_LuaFailuresAreMissingKeys ==
    /\ TableOpsKnown
    /\ family # "toy" =>
           /\ ~ EmptyStackOp
           /\ ~ UnknownOp
           /\ pc = "raised" => (i < Len(input) /\ Found = NoTransition)

\* `until x` as the first statement: the keyword is popped, the stack is
\* empty, and statement_until has no key there
C38_UntilOnEmptyStackHasNoKey ==
    /\ family = "clauses" /\ pc = "raised"
    /\ input = Bytes("until x  ")
    /\ state = "statement_until"
    /\ stack = << >>
    /\ Found = NoTransition

(***************************************************************************)
(* C40  the indicator of the failing byte                                  *)
(***************************************************************************)
\* the index of the first byte of the line that holds index k
LineStart(s, k) ==
    LET before == {j \in 0..(k - 1) : s[j + 1] = "\n"}
    IN  IF before = {} THEN 0 ELSE 1 + CHOOSE j \in before : \A h \in before : h <= j

\* the index after the last byte of that line, its line break left out
LineEnd(s, k) ==
    LET after == {j \in k..(Len(s) - 1) : s[j + 1] = "\n"}
    IN  IF after = {} THEN Len(s) ELSE CHOOSE j \in after : \A h \in after : j <= h

\* the number of line breaks before index k
BreaksBefore(s, k) == Cardinality({j \in 0..(k - 1) : s[j + 1] = "\n"})

\* C40: for the input of a parse that failed at index i, the indicator
\* shows the line number 1 + (line breaks before i), the whole line that
\* holds index i, and the caret at column i - (index of the first byte of
\* that line).
C40_IndicatorNamesLineAndColumn ==
    (family = "lines" /\ pc = "raised") =>
        print_nice_indicator(input, i) =
            [line_num |-> 1 + BreaksBefore(input, i),
             line |-> bytes_repr(SubSeq(input, LineStart(input, i) + 1, LineEnd(input, i))),
             dashes |-> i - LineStart(input, i)]

====
